---- MODULE Spec2Model ----
(***************************************************************************)
(* Ensemble statistics and derived-quantity pipeline of mountain_wx_fx.     *)
(*                                                                         *)
(* A DataFrame is modelled as a record [index, cols]: index is the sequence *)
(* of timestamps, cols the ordered sequence of columns [name, vals].        *)
(* A column name such as "ecmwf_ifs025_temperature_2m_member3" is modelled  *)
(* as the sequence of its words                                             *)
(*   <<"ecmwf","ifs025","temperature","2m","member","3">>                   *)
(* (the '_'-separated words, the last word "member3" split into "member"    *)
(* and the index).  Python's `sub in name` is the contiguous-subsequence    *)
(* test on these words; over the vocabulary of the repository no word is a  *)
(* substring of a different word of a name it is tested against, so both    *)
(* tests agree.                                                             *)
(*                                                                         *)
(* Cell values are integers in tenths of the variable's unit; NaN is the    *)
(* not-a-number cell.  Computed statistics are exact fractions [n, d];     *)
(* the fraction 0/0 is the floating point NaN.                              *)
(***************************************************************************)
EXTENDS Integers, Sequences, FiniteSets, TLC

VARIABLES df, daily_df, result, pc, forecast, PARAMS, args, cache, requests,
          now

vars == <<df, daily_df, result, pc, forecast, PARAMS, args, cache, requests, now>>

-----------------------------------------------------------------------------
(* Bounds of the model *)

NumTimestamps == 2
NumMembers == 2

(* numpy.nan as a cell of a column *)
NaN == -999

(* the defined values of a cell, in tenths: 0.0 and 6.0 *)
Values == {0, 60}
Cells == Values \cup {NaN}

-----------------------------------------------------------------------------
(* Exact fractions standing for floating point results *)

Frac(n, d) == [n |-> n, d |-> d]
NaNF == Frac(0, 0)
IsNaNF(f) == f.d = 0 /\ f.n = 0
IsInfF(f) == f.d = 0 /\ f.n # 0
FracLeq(a, b) == a.n * b.d <= b.n * a.d
FracEq(a, b) == a.n * b.d = b.n * a.d
FracGt(a, b) == a.n * b.d > b.n * a.d
\* a < b of floats: False when either side is NaN
FracLt(a, b) == ~IsNaNF(a) /\ ~IsNaNF(b) /\ a.n * b.d < b.n * a.d
FracAdd(a, b) == Frac(a.n * b.d + b.n * a.d, a.d * b.d)
FracSub(a, b) == Frac(a.n * b.d - b.n * a.d, a.d * b.d)
FracMul(a, b) == Frac(a.n * b.n, a.d * b.d)
Abs(x) == IF x < 0 THEN -x ELSE x
FracAbs(a) == Frac(Abs(a.n), a.d)
RECURSIVE GCD(_, _)
GCD(a, b) == IF b = 0 THEN a ELSE GCD(b, a % b)

\* a fraction in lowest terms (an infinity or NaN as it is)
Reduce(f) ==
    IF f.d = 0 \/ f.n = 0 THEN f
    ELSE Frac(f.n \div GCD(Abs(f.n), Abs(f.d)), f.d \div GCD(Abs(f.n), Abs(f.d)))

\* a / b; a zero divisor gives an infinity (d = 0, n # 0) or NaN (0/0)
FracDiv(a, b) == IF b.n < 0 THEN Frac(-(a.n * b.d), -(a.d * b.n))
                 ELSE Frac(a.n * b.d, a.d * b.n)

-----------------------------------------------------------------------------
(* Column names *)

\* model_mappings.MODEL_ID_TO_NAME / get_model_name
get_model_name(model_id) ==
    CASE model_id = 60 -> <<"ecmwf", "ifs025">>
      [] model_id = 17 -> <<"gem", "global">>
      [] model_id = 61 -> <<"ecmwf", "aifs025">>
      [] model_id = 2  -> <<"gfs", "seamless">>
      [] OTHER         -> <<"model", ToString(model_id)>>

\* the variable vocabulary, as words
VarWords(v) ==
    CASE v = "temperature_2m"       -> <<"temperature", "2m">>
      [] v = "relative_humidity_2m" -> <<"relative", "humidity", "2m">>
      [] v = "precipitation"        -> <<"precipitation">>
      [] v = "snowfall"             -> <<"snowfall">>
      [] v = "snowfall_calculated"  -> <<"snowfall", "calculated">>
      [] v = "wind_speed_80m"       -> <<"wind", "speed", "80m">>
      [] v = "wind_speed_10m"       -> <<"wind", "speed", "10m">>
      [] v = "wind_direction_80m"   -> <<"wind", "direction", "80m">>
      [] v = "wind_direction_10m"   -> <<"wind", "direction", "10m">>
      [] v = "temperature_2m_min"   -> <<"temperature", "2m", "min">>
      [] v = "temperature_2m_max"   -> <<"temperature", "2m", "max">>
      [] v = "temperature_2m_mean"  -> <<"temperature", "2m", "mean">>
      [] v = "precipitation_sum"    -> <<"precipitation", "sum">>
      [] v = "wind_speed_10m_mean"  -> <<"wind", "speed", "10m", "mean">>
      [] v = "wind_direction_10m_dominant"
                                    -> <<"wind", "direction", "10m", "dominant">>
      [] v = "wind_speed"           -> <<"wind", "speed">>
      [] v = "freezing_level_height" -> <<"freezing", "level", "height">>
      [] v = "temperature_850hPa"   -> <<"temperature", "850hPa">>

\* f"{model_name}_{var_name}_member{member}"
col_name(model_name, v, member) ==
    model_name \o VarWords(v) \o <<"member", ToString(member)>>

\* Python: sub in s
Contains(sub, s) ==
    \E i \in 0..(Len(s) - Len(sub)) : SubSeq(s, i + 1, i + Len(sub)) = sub

\* [col for col in df.columns if variable in col and 'member' in col]
get_variable_columns(d, v) ==
    SelectSeq(d.cols, LAMBDA c : Contains(VarWords(v), c.name)
                                  /\ Contains(<<"member">>, c.name))

-----------------------------------------------------------------------------
(* Sequences of numbers *)

Range(f) == {f[i] : i \in DOMAIN f}

RECURSIVE SetSum(_, _)
SetSum(f, S) ==
    IF S = {} THEN 0
    ELSE LET x == CHOOSE y \in S : TRUE IN f[x] + SetSum(f, S \ {x})

RECURSIVE SumSeq(_)
SumSeq(s) == IF s = <<>> THEN 0 ELSE Head(s) + SumSeq(Tail(s))

RECURSIVE SumSq(_)
SumSq(s) == IF s = <<>> THEN 0 ELSE Head(s) * Head(s) + SumSq(Tail(s))

RECURSIVE Insert(_, _)
Insert(x, s) ==
    IF s = <<>> THEN <<x>>
    ELSE IF x <= Head(s) THEN <<x>> \o s
    ELSE <<Head(s)>> \o Insert(x, Tail(s))

RECURSIVE Sorted(_)
Sorted(s) == IF s = <<>> THEN <<>> ELSE Insert(Head(s), Sorted(Tail(s)))

\* the cells of the columns cs at row t, in column order
RowOf(cs, t) == [i \in 1..Len(cs) |-> cs[i].vals[t]]

\* skipna: the defined cells of a row
Valid_fillna(row) == [i \in 1..Len(row) |-> IF row[i] = NaN THEN 0 ELSE row[i]]

Valid(row) == SelectSeq(row, LAMBDA x : x # NaN)

-----------------------------------------------------------------------------
(* DataProcessor: the table built from the provider's responses *)

EmptyFrame == [index |-> <<>>, cols |-> <<>>]

\* AdvancedSnowFormulas.PARAMS as documented, in thousandths
DocumentedDefaults ==
    [alpha |-> 1200, beta |-> 500, r_min |-> 6000, r_max |-> 18000,
     t_peak |-> -12000, sigma |-> 7000, gamma |-> 200, delta |-> 50]

\* no call arguments
NoArgs == [fn |-> "none"]

\* the response cache before any response is stored: key -> entry
EmptyCache == <<>>

\* RateLimiter.requests = {}: IP -> list of timestamps
NoRequests == <<>>

\* the forecast dict before its hourly and daily lists are filled
NoForecast ==
    [hourly |-> <<>>, daily |-> <<>>,
     summary |-> [executive_summary |-> "", key_concerns |-> {}, rating |-> "UNKNOWN"],
     alerts |-> {}]

\* the column names one table shape yields, in DataFrame column order:
\* responses (models) in order, per response the variable_map order, per
\* variable the members in order
ColumnNames(shape) ==
    LET nv == Len(shape.vars)
        nm == shape.nmem
    IN  [i \in 1..(Len(shape.models) * nv * nm) |->
            col_name(get_model_name(shape.models[((i - 1) \div (nv * nm)) + 1]),
                     shape.vars[(((i - 1) \div nm) % nv) + 1],
                     (i - 1) % nm)]

\* pd.concat(all_data, axis=1) of the per-response frames
process_responses(shape, values) ==
    LET names == ColumnNames(shape)
    IN  [index |-> [t \in 1..NumTimestamps |-> t],
         cols  |-> [i \in 1..Len(names) |-> [name |-> names[i], vals |-> values[i]]]]

Series == [1..NumTimestamps -> Cells]

TablesOf(shape) ==
    {process_responses(shape, values) :
        values \in [1..Len(ColumnNames(shape)) -> Series]}

-----------------------------------------------------------------------------
(* StatisticsCalculator *)

\* Series.quantile(q) with linear interpolation, on the values s (q in percent)
Quantile(s, q) ==
    IF s = <<>> THEN NaNF
    ELSE LET pos == (Len(s) - 1) * q
             lo  == pos \div 100
             fr  == pos % 100
             hi  == IF fr > 0 THEN lo + 2 ELSE lo + 1
         IN  Frac(100 * s[lo + 1] + fr * (s[hi] - s[lo + 1]), 100)

\* df[cols].quantile(q, axis=1) at one row: the defined cells, ordered
row_quantile_unsorted(row, q) == Quantile(Valid(row), q)

row_quantile(row, q) == Quantile(Sorted(Valid(row)), q)

\* df[cols].min/max/mean/median/std(axis=1) at one row (skipna); "var" is the
\* square of std (ddof = 1), std itself being its square root
row_stats(row) ==
    LET v == Valid(row)
        s == Sorted(v)
        n == Len(v)
    IN  [min    |-> IF n = 0 THEN NaNF ELSE Frac(s[1], 1),
         max    |-> IF n = 0 THEN NaNF ELSE Frac(s[n], 1),
         mean   |-> Frac(SumSeq(v), n),
         median |-> row_quantile(row, 50),
         var    |-> Frac(n * SumSq(v) - SumSeq(v) * SumSeq(v), n * (n - 1)),
         p10    |-> row_quantile(row, 10),
         p25    |-> row_quantile(row, 25),
         p75    |-> row_quantile(row, 75),
         p90    |-> row_quantile(row, 90)]

\* calculate_statistics without its `if not cols: raise`
calculate_statistics_noraise(d, v) ==
    LET cols == get_variable_columns(d, v)
    IN  [status |-> "ok",
         cols   |-> [i \in 1..Len(cols) |-> cols[i].name],
         value  |-> [t \in 1..Len(d.index) |-> row_stats(RowOf(cols, t))]]

calculate_statistics(d, v) ==
    LET cols == get_variable_columns(d, v)
    IN  IF cols = <<>>
        THEN [status |-> "ValueError", cols |-> <<>>, value |-> <<>>]
        ELSE [status |-> "ok",
              cols   |-> [i \in 1..Len(cols) |-> cols[i].name],
              value  |-> [t \in 1..Len(d.index) |-> row_stats(RowOf(cols, t))]]

-----------------------------------------------------------------------------
(* ProbabilityAnalyzer *)

\* a condition lambda x: x > thr or lambda x: x < thr (thr in tenths); any
\* comparison with NaN is False
Gt(thr) == [op |-> "gt", thr |-> thr]
Lt(thr) == [op |-> "lt", thr |-> thr]

Meets(cond, x) ==
    /\ x # NaN
    /\ IF cond.op = "gt" THEN x > cond.thr ELSE x < cond.thr

\* meets_condition.sum(axis=1) / len(cols) at one row
row_probability(row, cond) ==
    Frac(Len(SelectSeq(row, LAMBDA x : Meets(cond, x))), Len(row))

calculate_probability(d, v, cond) ==
    LET cols == get_variable_columns(d, v)
    IN  IF cols = <<>>
        THEN [status |-> "ValueError", cols |-> <<>>, value |-> <<>>]
        ELSE [status |-> "ok",
              cols   |-> [i \in 1..Len(cols) |-> cols[i].name],
              value  |-> [t \in 1..Len(d.index) |->
                              row_probability(RowOf(cols, t), cond)]]

\* a probs DataFrame: one calculate_probability column per named event; a
\* call that raises aborts the whole function (all calls share the variable)
named_probabilities(d, v, named) ==
    LET first == calculate_probability(d, v, named[1].cond)
    IN  IF first.status # "ok"
        THEN first
        ELSE [status |-> "ok",
              cols   |-> first.cols,
              value  |-> [t \in 1..Len(d.index) |->
                            [k \in 1..Len(named) |->
                               calculate_probability(d, v, named[k].cond).value[t]]]]

calculate_precipitation_probabilities(d) ==
    named_probabilities(d, "precipitation",
        << [label |-> "p_measurable", cond |-> Gt(1)],
           [label |-> "p_heavy",      cond |-> Gt(50)],
           [label |-> "p_very_heavy", cond |-> Gt(100)] >>)

calculate_temperature_probabilities(d) ==
    named_probabilities(d, "temperature_2m",
        << [label |-> "p_freezing",    cond |-> Lt(0)],
           [label |-> "p_hard_freeze", cond |-> Lt(-50)],
           [label |-> "p_hot",         cond |-> Gt(300)] >>)

calculate_wind_probabilities(d, wind_var) ==
    named_probabilities(d, wind_var,
        << [label |-> "p_breezy",     cond |-> Gt(250)],
           [label |-> "p_windy",      cond |-> Gt(400)],
           [label |-> "p_very_windy", cond |-> Gt(600)] >>)

calculate_snow_probabilities(d) ==
    named_probabilities(d, "snowfall",
        << [label |-> "p_snow",          cond |-> Gt(1)],
           [label |-> "p_moderate_snow", cond |-> Gt(50)],
           [label |-> "p_heavy_snow",    cond |-> Gt(100)] >>)

-----------------------------------------------------------------------------
(* Specification of the statistics and probability engines: a table from    *)
(* the provider and one call on it.  The engines are functions of the table *)
(* and their arguments, so a behaviour is one call.                         *)

NoResult == [op |-> "none", variable |-> "", cond |-> Gt(0),
             status |-> "none", cols |-> <<>>, value |-> <<>>]

Call(op, v, cond, r) ==
    [op |-> op, variable |-> v, cond |-> cond,
     status |-> r.status, cols |-> r.cols, value |-> r.value]

\* the shapes of the tables the engines are called on: hourly tables (one
\* variable of several members, one variable of two models, two variables)
\* and a daily table of aggregated variables
StatsShapes ==
    { [models |-> <<60>>,     vars |-> <<"precipitation">>, nmem |-> NumMembers],
      [models |-> <<60, 17>>, vars |-> <<"snowfall">>, nmem |-> 1],
      [models |-> <<2>>,      vars |-> <<"temperature_2m", "wind_speed_80m">>, nmem |-> 1],
      [models |-> <<61>>,     vars |-> <<"temperature_2m_max", "precipitation_sum">>,
       nmem |-> 1] }

QueryVars == {"temperature_2m", "precipitation", "snowfall", "wind_speed_10m"}
Conds == {Gt(1), Gt(-1)}

StatsInit ==
    /\ \E shape \in StatsShapes : df \in TablesOf(shape)
    /\ daily_df = EmptyFrame
    /\ result = NoResult
    /\ pc = "idle"
    /\ forecast = NoForecast
    /\ PARAMS = DocumentedDefaults
    /\ cache = EmptyCache
    /\ requests = NoRequests
    /\ now = 0
    /\ args = NoArgs

CalculateStatistics(v) ==
    /\ result.op = "none"
    /\ result' = Call("calculate_statistics", v, Gt(0), calculate_statistics(df, v))
    /\ UNCHANGED <<df, daily_df, pc, forecast, PARAMS, args, cache, requests, now>>

CalculateProbability(v, cond) ==
    /\ result.op = "none"
    /\ result' = Call("calculate_probability", v, cond,
                      calculate_probability(df, v, cond))
    /\ UNCHANGED <<df, daily_df, pc, forecast, PARAMS, args, cache, requests, now>>

CalculatePrecipitationProbabilities ==
    /\ result.op = "none"
    /\ result' = Call("calculate_precipitation_probabilities", "precipitation", Gt(0),
                      calculate_precipitation_probabilities(df))
    /\ UNCHANGED <<df, daily_df, pc, forecast, PARAMS, args, cache, requests, now>>

CalculateTemperatureProbabilities ==
    /\ result.op = "none"
    /\ result' = Call("calculate_temperature_probabilities", "temperature_2m", Gt(0),
                      calculate_temperature_probabilities(df))
    /\ UNCHANGED <<df, daily_df, pc, forecast, PARAMS, args, cache, requests, now>>

CalculateWindProbabilities ==
    /\ result.op = "none"
    /\ result' = Call("calculate_wind_probabilities", "wind_speed_80m", Gt(0),
                      calculate_wind_probabilities(df, "wind_speed_80m"))
    /\ UNCHANGED <<df, daily_df, pc, forecast, PARAMS, args, cache, requests, now>>

CalculateSnowProbabilities ==
    /\ result.op = "none"
    /\ result' = Call("calculate_snow_probabilities", "snowfall", Gt(0),
                      calculate_snow_probabilities(df))
    /\ UNCHANGED <<df, daily_df, pc, forecast, PARAMS, args, cache, requests, now>>

StatsNext ==
    \/ \E v \in QueryVars : CalculateStatistics(v)
    \/ \E v \in QueryVars, cond \in Conds : CalculateProbability(v, cond)
    \/ CalculatePrecipitationProbabilities
    \/ CalculateTemperatureProbabilities
    \/ CalculateWindProbabilities
    \/ CalculateSnowProbabilities

StatsSpec == StatsInit /\ [][StatsNext]_vars

-----------------------------------------------------------------------------
(* StatisticsCalculator.calculate_trend, called on a series of its own.      *)

\* the length of the series
TrendLen == 3

\* values of the series, in tenths; NaN is a mean over no defined member
TrendValues == {0, 5, 20, 30, NaN}
Windows == {1, 2, 3}

\* rate = (recent_vals.iloc[-1] - recent_vals.iloc[0]) / window at position k
\* (1-based), NaN when either end is NaN
trend_rate(series, k, window) ==
    IF series[k] = NaN \/ series[k - window] = NaN THEN NaNF
    ELSE Frac(series[k] - series[k - window], 10 * window)

\* the if / elif chain over the rate; a comparison with NaN is False
classify_trend(rate) ==
    IF FracLt(FracAbs(rate), Frac(1, 2)) THEN "stable"
    ELSE IF FracGt(rate, Frac(2, 1)) THEN "rapidly_rising"
    ELSE IF FracGt(rate, Frac(1, 2)) THEN "rising"
    ELSE IF FracLt(rate, Frac(-2, 1)) THEN "rapidly_falling"
    ELSE "falling"

\* the loop without the labels of the points i < window
calculate_trend_no_warmup(series, window) ==
    [j \in 1..(Len(series) - window) |->
        classify_trend(trend_rate(series, j + window, window))]

\* one label per i in range(len(series)); i < window is position k <= window
calculate_trend(series, window) ==
    [k \in 1..Len(series) |->
        IF k <= window THEN "stable"
        ELSE classify_trend(trend_rate(series, k, window))]

NoTrendResult == [op |-> "none", window |-> 0, value |-> <<>>]

TrendInit ==
    /\ df = EmptyFrame
    /\ daily_df = EmptyFrame
    /\ forecast = NoForecast
    /\ PARAMS = DocumentedDefaults
    /\ cache = EmptyCache
    /\ requests = NoRequests
    /\ now = 0
    /\ pc = "first"
    /\ result = NoTrendResult
    /\ \E s \in [1..TrendLen -> TrendValues] :
          args = [fn |-> "calculate_trend", series |-> s]

CalculateTrend(window) ==
    /\ pc = "first"
    /\ result' = [op |-> "calculate_trend", window |-> window,
                  value |-> calculate_trend(args.series, window)]
    /\ pc' = "end"
    /\ UNCHANGED <<df, daily_df, forecast, PARAMS, args, cache, requests, now>>

TrendNext == \E window \in Windows : CalculateTrend(window)

TrendSpec == TrendInit /\ [][TrendNext]_vars

-----------------------------------------------------------------------------
(* ModelComparison *)

\* the model names _identify_models tests for, in the order of its elif chain
KnownModels == << <<"ecmwf", "ifs025">>, <<"ecmwf", "aifs025">>,
                  <<"gem", "global">>, <<"gfs", "seamless">> >>

\* the model the elif chain assigns to a column name, <<>> when none matches
model_of_column(name) ==
    IF \E k \in 1..Len(KnownModels) : Contains(KnownModels[k], name)
    THEN KnownModels[CHOOSE k \in 1..Len(KnownModels) :
                        /\ Contains(KnownModels[k], name)
                        /\ \A j \in 1..(k - 1) : ~Contains(KnownModels[j], name)]
    ELSE <<>>

\* ModelComparison._identify_models, as the set of model names found
identify_models(d, v) ==
    {model_of_column(c.name) : c \in Range(get_variable_columns(d, v))} \ {<<>>}

\* df[model_cols].mean(axis=1) at row t
model_mean(d, v, model, t) ==
    LET cols == SelectSeq(get_variable_columns(d, v),
                          LAMBDA c : Contains(model, c.name))
        vs   == Valid(RowOf(cols, t))
    IN  Frac(SumSeq(vs), Len(vs))

\* the dict model_means: model -> series of per-timestamp means
model_means_of(d, v, models) ==
    [m \in models |-> [t \in 1..Len(d.index) |-> model_mean(d, v, m, t)]]

RECURSIVE FracSum(_, _)
FracSum(f, S) ==
    IF S = {} THEN Frac(0, 1)
    ELSE LET x == CHOOSE y \in S : TRUE IN FracAdd(f[x], FracSum(f, S \ {x}))

\* all_means.mean/std/min/max(axis=1) at one row: x maps a model to its mean;
\* "var" is the square of the sample standard deviation (ddof = 1)
across_models(x) ==
    LET D  == {m \in DOMAIN x : ~IsNaNF(x[m])}
        k  == Cardinality(D)
        sm == FracSum(x, D)
        sq == FracSum([m \in D |-> FracMul(x[m], x[m])], D)
    IN  [mean |-> IF k = 0 THEN NaNF ELSE FracDiv(sm, Frac(k, 1)),
         var  |-> IF k < 2 THEN NaNF
                  ELSE FracDiv(FracSub(FracMul(Frac(k, 1), sq), FracMul(sm, sm)),
                               Frac(k * (k - 1), 1)),
         min  |-> IF k = 0 THEN NaNF
                  ELSE x[CHOOSE m \in D : \A o \in D : FracLeq(x[m], x[o])],
         max  |-> IF k = 0 THEN NaNF
                  ELSE x[CHOOSE m \in D : \A o \in D : FracLeq(x[o], x[m])]]

\* one row of comparison_df; "cv2" is the square of cv = std / |mean|
comparison_row(x) ==
    LET a == across_models(x)
    IN  [mean  |-> a.mean, var |-> a.var, min |-> a.min, max |-> a.max,
         range |-> FracSub(a.max, a.min),
         cv2   |-> FracDiv(a.var, FracMul(a.mean, a.mean))]

compare_models(d, v) ==
    LET models == identify_models(d, v)
        mm     == model_means_of(d, v, models)
    IN  IF Cardinality(models) < 2
        THEN [status |-> "ValueError", cols |-> <<>>, value |-> <<>>]
        ELSE [status |-> "ok", cols |-> <<>>,
              value  |-> [comparison |->
                            [t \in 1..Len(d.index) |->
                                comparison_row([m \in models |-> mm[m][t]])],
                          model_means |-> mm]]

\* the default threshold 1.5
DefaultThreshold == Frac(3, 2)

\* sorted(list(models)): the column order of the per-model means
ModelOrder == << <<"ecmwf", "aifs025">>, <<"ecmwf", "ifs025">>,
                 <<"gem", "global">>, <<"gfs", "seamless">> >>

\* the defined per-model means of a row, in column order
defined_models(x) ==
    SelectSeq(ModelOrder, LAMBDA m : m \in DOMAIN x /\ ~IsNaNF(x[m]))

means_row(x) ==
    LET ms == defined_models(x) IN [k \in 1..Len(ms) |-> Reduce(x[ms[k]])]

position_of(x, m) ==
    LET ms == defined_models(x) IN CHOOSE k \in 1..Len(ms) : ms[k] = m

\* rows of means (tenths, column order) and a position in them at which
\* |z| is exactly 1.5 and its evaluation in doubles (the sum left to right,
\* the mean, the squared deviations, their sum over N - 1, the square root
\* and the quotient, each rounded to nearest) is 1.5000000000000022
RoundedAbove ==
    { << <<Frac(-50, 1), Frac(-50, 1), Frac(-50, 1), Frac(-48, 1)>>, 4 >>,
      << <<Frac(-50, 1), Frac(-50, 1), Frac(-48, 1), Frac(-50, 1)>>, 3 >>,
      << <<Frac(-50, 1), Frac(-48, 1), Frac(-50, 1), Frac(-50, 1)>>, 2 >>,
      << <<Frac(-48, 1), Frac(-50, 1), Frac(-50, 1), Frac(-50, 1)>>, 1 >>,
      << <<Frac(-48, 1), Frac(-48, 1), Frac(-50, 1), Frac(-48, 1)>>, 3 >>,
      << <<Frac(-48, 1), Frac(-48, 1), Frac(-48, 1), Frac(-50, 1)>>, 4 >> }

\* z_scores.abs() > threshold in doubles: the exact comparison, except where
\* |z| equals the threshold exactly and rounding decides
z_exceeds(x, m, z2, threshold) ==
    IF ~IsNaNF(z2) /\ FracEq(z2, FracMul(threshold, threshold))
    THEN FracEq(threshold, Frac(3, 2))
         /\ <<means_row(x), position_of(x, m)>> \in RoundedAbove
    ELSE FracGt(z2, FracMul(threshold, threshold))

\* one cell of the outliers frame, flagging on z instead of |z|
outlier_cell_signed(x, m, threshold) ==
    LET a    == across_models(x)
        diff == FracSub(x[m], a.mean)
        z2   == FracDiv(FracMul(diff, diff), a.var)
    IN  [outlier |-> diff.n * diff.d > 0 /\ z_exceeds(x, m, z2, threshold),
         z_sign  |-> IF IsNaNF(z2) THEN 0
                     ELSE IF diff.n * diff.d < 0 THEN -1
                     ELSE IF diff.n = 0 THEN 0 ELSE 1,
         z2      |-> z2]

\* one cell of the outliers frame: z = diff / sqrt(var) is kept as the sign of
\* diff and z2 = diff^2 / var; NaN > threshold is False
outlier_cell(x, m, threshold) ==
    LET a    == across_models(x)
        diff == FracSub(x[m], a.mean)
        z2   == FracDiv(FracMul(diff, diff), a.var)
    IN  [outlier |-> z_exceeds(x, m, z2, threshold),
         z_sign  |-> IF IsNaNF(z2) THEN 0
                     ELSE IF diff.n * diff.d < 0 THEN -1
                     ELSE IF diff.n = 0 THEN 0 ELSE 1,
         z2      |-> z2]

\* ModelComparison.identify_outliers; n is the length of the series
identify_outliers(mm, threshold, n) ==
    [status |-> "ok", cols |-> <<>>,
     value  |-> [t \in 1..n |->
                   [m \in DOMAIN mm |->
                       outlier_cell([o \in DOMAIN mm |-> mm[o][t]], m, threshold)]]]

\* calculate_agreement_level on the square of cv (cv is never negative)
calculate_agreement_level(cv2) ==
    IF FracLt(cv2, Frac(1, 100)) THEN "high"
    ELSE IF FracLt(cv2, Frac(9, 100)) THEN "moderate"
    ELSE "low"

\* get_comparison_dict at timestamp t of the frames compare_models and
\* identify_outliers returned
get_comparison_dict(comparison, mm, outliers, v, t) ==
    IF t \notin DOMAIN comparison
    THEN [status |-> "ValueError", cols |-> <<>>, value |-> <<>>]
    ELSE [status |-> "ok", cols |-> <<>>,
          value  |-> [variable              |-> v,
                      agreement_level       |->
                          calculate_agreement_level(comparison[t].cv2),
                      models_in_agreement   |->
                          {m \in DOMAIN mm : ~outliers[t][m].outlier},
                      outlier_models        |->
                          {m \in DOMAIN mm : outliers[t][m].outlier},
                      spread                |-> comparison[t].range,
                      coefficient_variation |-> comparison[t].cv2,
                      model_values          |-> [m \in DOMAIN mm |-> mm[m][t]]]]

\* compare_models, identify_outliers and get_comparison_dict in a row, as
\* ForecastGenerator._generate_model_comparison chains them
model_comparison_at(d, v, t) ==
    LET c == compare_models(d, v)
    IN  IF c.status # "ok" THEN c
        ELSE get_comparison_dict(
                 c.value.comparison, c.value.model_means,
                 identify_outliers(c.value.model_means, DefaultThreshold,
                                   Len(d.index)).value,
                 v, t)

-----------------------------------------------------------------------------
(* Specification of the model agreement engine: a table from the provider   *)
(* and one call on it, compare_models on the table or identify_outliers on  *)
(* the per-model means of the models the caller passes.                     *)

ModelShapes ==
    { [models |-> <<60>>,         vars |-> <<"temperature_2m">>, nmem |-> NumMembers],
      [models |-> <<60, 17>>,     vars |-> <<"temperature_2m">>, nmem |-> 1],
      [models |-> <<60, 61>>,     vars |-> <<"temperature_2m">>, nmem |-> 1],
      [models |-> <<5, 7>>,       vars |-> <<"temperature_2m">>, nmem |-> 1],
      [models |-> <<60, 5>>,      vars |-> <<"temperature_2m">>, nmem |-> 1],
      [models |-> <<2, 17, 61>>,  vars |-> <<"temperature_2m">>, nmem |-> 1] }

ModelQueryVars == {"temperature_2m", "precipitation"}

ModelsInit ==
    /\ \E shape \in ModelShapes : df \in TablesOf(shape)
    /\ daily_df = EmptyFrame
    /\ result = NoResult
    /\ pc = "idle"
    /\ forecast = NoForecast
    /\ PARAMS = DocumentedDefaults
    /\ cache = EmptyCache
    /\ requests = NoRequests
    /\ now = 0
    /\ args = NoArgs

CompareModels(v) ==
    /\ result.op = "none"
    /\ result' = Call("compare_models", v, Gt(0), compare_models(df, v))
    /\ UNCHANGED <<df, daily_df, pc, forecast, PARAMS, args, cache, requests, now>>

\* the thresholds a caller passes, in tenths: the default 1.5, and 1.0;
\* the call records its threshold as the condition |z| > thr
Thresholds == {15, 10}

IdentifyOutliers(v, models, thr) ==
    /\ result.op = "none"
    /\ models \subseteq identify_models(df, v)
    /\ result' = Call("identify_outliers", v, Gt(thr),
                      identify_outliers(model_means_of(df, v, models),
                                        Frac(thr, 10), Len(df.index)))
    /\ UNCHANGED <<df, daily_df, pc, forecast, PARAMS, args, cache, requests, now>>

GetComparisonDict(v, t) ==
    /\ result.op = "none"
    /\ result' = Call("get_comparison_dict", v, Gt(0), model_comparison_at(df, v, t))
    /\ UNCHANGED <<df, daily_df, pc, forecast, PARAMS, args, cache, requests, now>>

ModelsNext ==
    \/ \E v \in ModelQueryVars : CompareModels(v)
    \/ \E v \in ModelQueryVars, t \in 1..(NumTimestamps + 1) : GetComparisonDict(v, t)
    \/ \E v \in ModelQueryVars, models \in (SUBSET Range(KnownModels)) \ {{}},
          thr \in Thresholds :
         IdentifyOutliers(v, models, thr)

ModelsSpec == ModelsInit /\ [][ModelsNext]_vars

-----------------------------------------------------------------------------
(* AdvancedSnowFormulas, in fixed point: temperatures in tenths of a degree, *)
(* humidity in tenths of a percent, precipitation in tenths of a mm,        *)
(* durations in tenths of an hour, factors in thousandths, snowfall in      *)
(* tenths of a cm.  The arctangent, power and exponential terms are         *)
(* tabulated from the source formulas at the temperatures and humidities    *)
(* of the model, for the default alpha, beta, t_peak and sigma and one      *)
(* override of each.  PARAMS is the class dict of the defaults.             *)


Clip(x, lo, hi) == IF x < lo THEN lo ELSE IF x > hi THEN hi ELSE x
Max(a, b) == IF a >= b THEN a ELSE b

\* wet-bulb temperature in hundredths of a degree
wet_bulb_temperature(temp_c, rh_pct) ==
    LET t  == temp_c
        rh == Clip(rh_pct, 0, 1000)
    IN  CASE t = -120 /\ rh = 0 -> -1010
          [] t = -120 /\ rh = 500 -> -1382
          [] t = -120 /\ rh = 850 -> -1298
          [] t = -120 /\ rh = 1000 -> -1222
          [] t = -40 /\ rh = 0 -> -663
          [] t = -40 /\ rh = 500 -> -694
          [] t = -40 /\ rh = 850 -> -520
          [] t = -40 /\ rh = 1000 -> -416
          [] t = 0 /\ rh = 0 -> -365
          [] t = 0 /\ rh = 500 -> -350
          [] t = 0 /\ rh = 850 -> -131
          [] t = 0 /\ rh = 1000 -> -13
          [] t = 20 /\ rh = 0 -> -172
          [] t = 20 /\ rh = 500 -> -178
          [] t = 20 /\ rh = 850 -> 64
          [] t = 20 /\ rh = 1000 -> 188

\* 1 / (1 + exp(alpha * (Tw - beta))) in ten-thousandths, for alpha 1.2 or
\* 2.0 and beta 0.5 or 0.0
snow_probability(tw, alpha, beta) ==
    CASE alpha = 1200 /\ beta = 500 /\ tw = -1382 -> 10000
      [] alpha = 1200 /\ beta = 500 /\ tw = -1298 -> 10000
      [] alpha = 1200 /\ beta = 500 /\ tw = -1222 -> 10000
      [] alpha = 1200 /\ beta = 500 /\ tw = -1010 -> 10000
      [] alpha = 1200 /\ beta = 500 /\ tw = -694 -> 9999
      [] alpha = 1200 /\ beta = 500 /\ tw = -663 -> 9998
      [] alpha = 1200 /\ beta = 500 /\ tw = -520 -> 9989
      [] alpha = 1200 /\ beta = 500 /\ tw = -416 -> 9963
      [] alpha = 1200 /\ beta = 500 /\ tw = -365 -> 9932
      [] alpha = 1200 /\ beta = 500 /\ tw = -350 -> 9918
      [] alpha = 1200 /\ beta = 500 /\ tw = -178 -> 9391
      [] alpha = 1200 /\ beta = 500 /\ tw = -172 -> 9349
      [] alpha = 1200 /\ beta = 500 /\ tw = -131 -> 8977
      [] alpha = 1200 /\ beta = 500 /\ tw = -13 -> 6805
      [] alpha = 1200 /\ beta = 500 /\ tw = 64 -> 4581
      [] alpha = 1200 /\ beta = 500 /\ tw = 188 -> 1603
      [] alpha = 1200 /\ beta = 0 /\ tw = -1382 -> 10000
      [] alpha = 1200 /\ beta = 0 /\ tw = -1298 -> 10000
      [] alpha = 1200 /\ beta = 0 /\ tw = -1222 -> 10000
      [] alpha = 1200 /\ beta = 0 /\ tw = -1010 -> 10000
      [] alpha = 1200 /\ beta = 0 /\ tw = -694 -> 9998
      [] alpha = 1200 /\ beta = 0 /\ tw = -663 -> 9996
      [] alpha = 1200 /\ beta = 0 /\ tw = -520 -> 9981
      [] alpha = 1200 /\ beta = 0 /\ tw = -416 -> 9933
      [] alpha = 1200 /\ beta = 0 /\ tw = -365 -> 9876
      [] alpha = 1200 /\ beta = 0 /\ tw = -350 -> 9852
      [] alpha = 1200 /\ beta = 0 /\ tw = -178 -> 8944
      [] alpha = 1200 /\ beta = 0 /\ tw = -172 -> 8874
      [] alpha = 1200 /\ beta = 0 /\ tw = -131 -> 8281
      [] alpha = 1200 /\ beta = 0 /\ tw = -13 -> 5389
      [] alpha = 1200 /\ beta = 0 /\ tw = 64 -> 3169
      [] alpha = 1200 /\ beta = 0 /\ tw = 188 -> 948
      [] alpha = 2000 /\ beta = 500 /\ tw = -1382 -> 10000
      [] alpha = 2000 /\ beta = 500 /\ tw = -1298 -> 10000
      [] alpha = 2000 /\ beta = 500 /\ tw = -1222 -> 10000
      [] alpha = 2000 /\ beta = 500 /\ tw = -1010 -> 10000
      [] alpha = 2000 /\ beta = 500 /\ tw = -694 -> 10000
      [] alpha = 2000 /\ beta = 500 /\ tw = -663 -> 10000
      [] alpha = 2000 /\ beta = 500 /\ tw = -520 -> 10000
      [] alpha = 2000 /\ beta = 500 /\ tw = -416 -> 9999
      [] alpha = 2000 /\ beta = 500 /\ tw = -365 -> 9998
      [] alpha = 2000 /\ beta = 500 /\ tw = -350 -> 9997
      [] alpha = 2000 /\ beta = 500 /\ tw = -178 -> 9896
      [] alpha = 2000 /\ beta = 500 /\ tw = -172 -> 9883
      [] alpha = 2000 /\ beta = 500 /\ tw = -131 -> 9739
      [] alpha = 2000 /\ beta = 500 /\ tw = -13 -> 7790
      [] alpha = 2000 /\ beta = 500 /\ tw = 64 -> 4305
      [] alpha = 2000 /\ beta = 500 /\ tw = 188 -> 595
      [] alpha = 2000 /\ beta = 0 /\ tw = -1382 -> 10000
      [] alpha = 2000 /\ beta = 0 /\ tw = -1298 -> 10000
      [] alpha = 2000 /\ beta = 0 /\ tw = -1222 -> 10000
      [] alpha = 2000 /\ beta = 0 /\ tw = -1010 -> 10000
      [] alpha = 2000 /\ beta = 0 /\ tw = -694 -> 10000
      [] alpha = 2000 /\ beta = 0 /\ tw = -663 -> 10000
      [] alpha = 2000 /\ beta = 0 /\ tw = -520 -> 10000
      [] alpha = 2000 /\ beta = 0 /\ tw = -416 -> 9998
      [] alpha = 2000 /\ beta = 0 /\ tw = -365 -> 9993
      [] alpha = 2000 /\ beta = 0 /\ tw = -350 -> 9991
      [] alpha = 2000 /\ beta = 0 /\ tw = -178 -> 9723
      [] alpha = 2000 /\ beta = 0 /\ tw = -172 -> 9689
      [] alpha = 2000 /\ beta = 0 /\ tw = -131 -> 9321
      [] alpha = 2000 /\ beta = 0 /\ tw = -13 -> 5646
      [] alpha = 2000 /\ beta = 0 /\ tw = 64 -> 2176
      [] alpha = 2000 /\ beta = 0 /\ tw = 188 -> 228

\* exp(-(T - t_peak)^2 / (2 sigma^2)) in ten-thousandths, for t_peak -12 or
\* -10 and sigma 7 or 5
slr_gaussian(temp_c, t_peak, sigma) ==
    CASE t_peak = -12000 /\ sigma = 7000 /\ temp_c = -120 -> 10000
      [] t_peak = -12000 /\ sigma = 7000 /\ temp_c = -40 -> 5205
      [] t_peak = -12000 /\ sigma = 7000 /\ temp_c = 0 -> 2301
      [] t_peak = -12000 /\ sigma = 7000 /\ temp_c = 20 -> 1353
      [] t_peak = -12000 /\ sigma = 5000 /\ temp_c = -120 -> 10000
      [] t_peak = -12000 /\ sigma = 5000 /\ temp_c = -40 -> 2780
      [] t_peak = -12000 /\ sigma = 5000 /\ temp_c = 0 -> 561
      [] t_peak = -12000 /\ sigma = 5000 /\ temp_c = 20 -> 198
      [] t_peak = -10000 /\ sigma = 7000 /\ temp_c = -120 -> 9600
      [] t_peak = -10000 /\ sigma = 7000 /\ temp_c = -40 -> 6926
      [] t_peak = -10000 /\ sigma = 7000 /\ temp_c = 0 -> 3604
      [] t_peak = -10000 /\ sigma = 7000 /\ temp_c = 20 -> 2301
      [] t_peak = -10000 /\ sigma = 5000 /\ temp_c = -120 -> 9231
      [] t_peak = -10000 /\ sigma = 5000 /\ temp_c = -40 -> 4868
      [] t_peak = -10000 /\ sigma = 5000 /\ temp_c = 0 -> 1353
      [] t_peak = -10000 /\ sigma = 5000 /\ temp_c = 20 -> 561

base_slr(temp_c, r_min, r_max, t_peak, sigma) ==
    r_min + ((r_max - r_min) * slr_gaussian(temp_c, t_peak, sigma)) \div 10000

\* the factor before the final clip
humidity_factor_unclipped(rh_pct, gamma) ==
    1000 + (gamma * (500 - Clip(rh_pct, 0, 1000))) \div 500

humidity_factor(rh_pct, gamma) ==
    Clip(1000 + (gamma * (500 - Clip(rh_pct, 0, 1000))) \div 500, 800, 1200)

\* the rate precip / duration in mm per hour, 0 unless both are positive (a
\* NaN amount compares False)
rate_of(precip_mm, duration_h) ==
    IF duration_h > 0 /\ precip_mm # NaN /\ precip_mm > 0
    THEN Frac(precip_mm, duration_h)
    ELSE Frac(0, 1)

\* 1 / (1 + delta * rate), exactly
factor_of_rate(rate, delta) ==
    Frac(1000 * rate.d, 1000 * rate.d + delta * rate.n)

\* rate_factor of one element, in thousandths
rate_factor(precip_mm, duration_h, delta) ==
    LET f == factor_of_rate(rate_of(precip_mm, duration_h), delta)
    IN  (1000 * f.n) \div f.d

\* duration_h=None
None == -998

\* a call without keyword overrides
NoKwargs == [k \in {} |-> 0]

\* {**kwargs, **cls.PARAMS}: the defaults override the keywords
merged_params_defaults_win(kwargs) ==
    [k \in DOMAIN PARAMS \cup DOMAIN kwargs |->
        IF k \in DOMAIN PARAMS THEN PARAMS[k] ELSE kwargs[k]]

\* {**cls.PARAMS, **kwargs}
merged_params(kwargs) ==
    [k \in DOMAIN PARAMS \cup DOMAIN kwargs |->
        IF k \in DOMAIN kwargs THEN kwargs[k] ELSE PARAMS[k]]

\* steps 1 to 6 of calculate_snowfall for one element, without the floor
snowfall_steps(params, temp_c, rh_pct, precip_mm, duration_h) ==
    LET tw       == wet_bulb_temperature(temp_c, rh_pct)
        p_snow   == snow_probability(tw, params.alpha, params.beta)
        slr_base == base_slr(temp_c, params.r_min, params.r_max,
                             params.t_peak, params.sigma)
        f_rh     == humidity_factor(rh_pct, params.gamma)
        f_rate   == IF duration_h # None
                    THEN rate_factor(precip_mm, duration_h, params.delta)
                    ELSE 1000
        slr_eff  == (((slr_base * f_rh) \div 1000) * f_rate) \div 1000
    IN  (((precip_mm * slr_eff) \div 100) * p_snow) \div 1000000

\* calculate_snowfall for one element; a NaN input gives a NaN result
calculate_snowfall(temp_c, rh_pct, precip_mm, duration_h, kwargs) ==
    IF temp_c = NaN \/ rh_pct = NaN \/ precip_mm = NaN THEN NaN
    ELSE Max(snowfall_steps(merged_params(kwargs), temp_c, rh_pct, precip_mm,
                         duration_h), 0)

-----------------------------------------------------------------------------
(* Specification of the snow engine: the arguments of the calls are drawn   *)
(* at the start; calculate_snowfall is called up to twice with keyword      *)
(* overrides of the caller's choice, humidity_factor with a gamma.          *)

SnowTemps == {-120, -40, 0, 20}
SnowHumidities == {-100, 500, 850, 1200}
SnowPrecips == {-50, 0, 100}
SnowDurations == {None, -10, 0, 10, 120}

\* the keyword overrides a caller passes
SnowKwargs ==
    { NoKwargs, [alpha |-> 2000], [beta |-> 0], [r_min |-> 3000],
      [r_max |-> 12000], [t_peak |-> -10000], [sigma |-> 5000],
      [gamma |-> 400], [delta |-> 100],
      [r_min |-> -12000, r_max |-> -6000] }

Gammas == {-2000, 0, 200, 2000}

NoSnowResult == [op |-> "none", kwargs |-> NoKwargs, history |-> <<>>, value |-> 0]

SnowInit ==
    /\ df = EmptyFrame
    /\ daily_df = EmptyFrame
    /\ forecast = NoForecast
    /\ PARAMS = DocumentedDefaults
    /\ cache = EmptyCache
    /\ requests = NoRequests
    /\ now = 0
    /\ pc = "first"
    /\ result = NoSnowResult
    /\ \E t \in SnowTemps, rh \in SnowHumidities, p \in SnowPrecips,
          d \in SnowDurations :
          args = [fn |-> "snow", temp_c |-> t, rh_pct |-> rh, precip_mm |-> p,
                  duration_h |-> d]

\* cls.calculate_snowfall(temp_c, rh_pct, precip_mm, duration_h, **kwargs);
\* the class dict is read, never written
CalculateSnowfall(kwargs) ==
    /\ pc \in {"first", "second"}
    /\ result' = [op      |-> "calculate_snowfall",
                  kwargs  |-> kwargs,
                  history |-> Append(result.history, kwargs),
                  value   |-> calculate_snowfall(args.temp_c, args.rh_pct,
                                                 args.precip_mm, args.duration_h,
                                                 kwargs)]
    /\ pc' = IF pc = "first" THEN "second" ELSE "end"
    /\ UNCHANGED <<df, daily_df, forecast, PARAMS, args, cache, requests, now>>

HumidityFactor(gamma) ==
    /\ pc \in {"first", "second"}
    /\ result' = [op      |-> "humidity_factor",
                  kwargs  |-> [gamma |-> gamma],
                  history |-> result.history,
                  value   |-> humidity_factor(args.rh_pct, gamma)]
    /\ pc' = IF pc = "first" THEN "second" ELSE "end"
    /\ UNCHANGED <<df, daily_df, forecast, PARAMS, args, cache, requests, now>>

SnowNext ==
    \/ \E kwargs \in SnowKwargs : CalculateSnowfall(kwargs)
    \/ \E gamma \in Gammas : HumidityFactor(gamma)

SnowSpec == SnowInit /\ [][SnowNext]_vars

-----------------------------------------------------------------------------
(* AdvancedSnowFormulas.rate_factor called directly: each argument is a      *)
(* float or a numpy array; an argument is [shape, v] with v its elements.    *)

\* the length of an array argument
ArrayLen == 2

RatePrecips == {-50, 0, 10, 100}
RateDurations == {-10, 0, 10, 20}
Deltas == {0, 50, 100}

Scalar(x) == [shape |-> "scalar", v |-> <<x>>]
Array(xs) == [shape |-> "array", v |-> xs]

\* a float, or an array of ArrayLen elements
RateArgs(S) ==
    {Scalar(x) : x \in S} \cup {Array(xs) : xs \in [1..ArrayLen -> S]}

\* element i of an argument under numpy broadcasting
Broadcast(a, i) == IF a.shape = "scalar" THEN a.v[1] ELSE a.v[i]

\* np.divide(..., out=np.zeros_like(precip_mm, dtype=float)): the output has
\* the shape of precip_mm, so a float precip_mm with an array duration_h is a
\* 0-d output against a broadcast shape (n,), and numpy raises ValueError
rate_factor_raises(precip, duration) ==
    precip.shape = "scalar" /\ duration.shape = "array"

\* rate_factor(precip_mm, duration_h, delta): the scalar path, or the array
\* path element by element
rate_factor_call(precip, duration, delta) ==
    IF rate_factor_raises(precip, duration)
    THEN [raised |-> TRUE, shape |-> "none", value |-> <<>>]
    ELSE LET n == IF precip.shape = "array" THEN Len(precip.v)
                  ELSE Len(duration.v)
         IN  [raised |-> FALSE,
              shape  |-> IF precip.shape = "array" \/ duration.shape = "array"
                         THEN "array" ELSE "scalar",
              value  |-> [i \in 1..n |->
                             factor_of_rate(rate_of(Broadcast(precip, i),
                                                    Broadcast(duration, i)),
                                            delta)]]

NoRateResult ==
    [op |-> "none", delta |-> 0, raised |-> FALSE, shape |-> "none",
     value |-> <<>>]

RateInit ==
    /\ df = EmptyFrame
    /\ daily_df = EmptyFrame
    /\ forecast = NoForecast
    /\ PARAMS = DocumentedDefaults
    /\ cache = EmptyCache
    /\ requests = NoRequests
    /\ now = 0
    /\ pc = "first"
    /\ result = NoRateResult
    /\ \E p \in RateArgs(RatePrecips), d \in RateArgs(RateDurations) :
          args = [fn |-> "rate_factor", precip_mm |-> p, duration_h |-> d]

RateFactor(delta) ==
    /\ pc = "first"
    /\ LET r == rate_factor_call(args.precip_mm, args.duration_h, delta)
       IN  result' = [op |-> "rate_factor", delta |-> delta,
                      raised |-> r.raised, shape |-> r.shape,
                      value |-> r.value]
    /\ pc' = "end"
    /\ UNCHANGED <<df, daily_df, forecast, PARAMS, args, cache, requests, now>>

RateNext == \E delta \in Deltas : RateFactor(delta)

RateSpec == RateInit /\ [][RateNext]_vars

-----------------------------------------------------------------------------
(* EnhancedForecastGenerator *)

\* df[name] = vals: replaces the column of that name, else appends one
SetColumn(d, name, vals) ==
    IF \E i \in 1..Len(d.cols) : d.cols[i].name = name
    THEN [d EXCEPT !.cols = [i \in 1..Len(d.cols) |->
                                IF d.cols[i].name = name
                                THEN [name |-> name, vals |-> vals]
                                ELSE d.cols[i]]]
    ELSE [d EXCEPT !.cols = Append(d.cols, [name |-> name, vals |-> vals])]

\* t_col.split('member')[1]: the words after the first "member"
member_num(name) ==
    LET k == CHOOSE i \in 1..Len(name) :
                 name[i] = "member" /\ \A j \in 1..(i - 1) : name[j] # "member"
    IN  SubSeq(name, k + 1, Len(name))

\* f'{model_name}_snowfall_calculated_member{member_num}' with
\* model_name = t_col.split('_')[0]
snowfall_column_name(t_col) ==
    <<t_col[1]>> \o VarWords("snowfall_calculated") \o <<"member">> \o member_num(t_col)

Min(a, b) == IF a <= b THEN a ELSE b

\* the loop over zip(temp_cols, rh_cols, precip_cols), from the i-th triple on
RECURSIVE snowfall_loop(_, _, _, _, _)
snowfall_loop(d, temp_cols, rh_cols, precip_cols, i) ==
    IF i > Min(Len(temp_cols), Min(Len(rh_cols), Len(precip_cols))) THEN d
    ELSE LET snowfall == [t \in 1..Len(d.index) |->
                            calculate_snowfall(temp_cols[i].vals[t],
                                               rh_cols[i].vals[t],
                                               precip_cols[i].vals[t], 10, NoKwargs)]
         IN  snowfall_loop(SetColumn(d, snowfall_column_name(temp_cols[i].name),
                                     snowfall),
                           temp_cols, rh_cols, precip_cols, i + 1)

calculate_ensemble_snowfall(d) ==
    snowfall_loop(d, get_variable_columns(d, "temperature_2m"),
                  get_variable_columns(d, "relative_humidity_2m"),
                  get_variable_columns(d, "precipitation"), 1)

\* round(x, 1) of a value in tenths, round(x) of a value in units: the
\* nearest integer to the fraction, ties to even
Round(f) ==
    LET q == f.n \div f.d
        r == f.n - q * f.d
    IN  IF 2 * r < f.d THEN q
        ELSE IF 2 * r > f.d THEN q + 1
        ELSE IF q % 2 = 0 THEN q ELSE q + 1

\* the rounded square root of a non-negative fraction
RoundSqrt(f, bound) ==
    CHOOSE r \in 0..bound :
        /\ r = 0 \/ (2 * r - 1) * (2 * r - 1) * f.d <= 4 * f.n
        /\ 4 * f.n < (2 * r + 1) * (2 * r + 1) * f.d

NoneStats == [none |-> TRUE, mean |-> 0, min |-> 0, max |-> 0, std |-> 0,
              median |-> 0]

\* _get_variable_stats: None, or the statistics of the defined values,
\* rounded to one decimal (np.std is the population deviation)
get_variable_stats(d, v, t) ==
    LET cols == get_variable_columns(d, v)
        vs   == Valid(RowOf(cols, t))
        s    == Sorted(vs)
        n    == Len(vs)
    IN  IF cols = <<>> \/ n = 0 THEN NoneStats
        ELSE [none   |-> FALSE,
              mean   |-> Round(Frac(SumSeq(vs), n)),
              min    |-> s[1],
              max    |-> s[n],
              std    |-> RoundSqrt(Frac(n * SumSq(vs) - SumSeq(vs) * SumSeq(vs),
                                        n * n), s[n] - s[1]),
              median |-> Round(Quantile(s, 50))]

\* a reported number, or the string 'N/A' in its place
Num(x) == [na |-> FALSE, v |-> x]
NA == [na |-> TRUE, v |-> 0]

\* a wind direction: whole degrees, or the label 'N/A' or 'Variable'
Degrees(x) == [label |-> "degrees", deg |-> x]
DirectionLabel(l) == [label |-> l, deg |-> 0]

\* the wind_speed dict: the keys it carries and their values
WindBlock(keys, st) ==
    [keys |-> keys, mean |-> st.mean, min |-> st.min, max |-> st.max,
     std |-> st.std, median |-> st.median]

AllKeys == {"mean", "min", "max", "std", "median"}

\* round(x * 1.4, 1) of a value in tenths
TerrainAdjusted(x) == Round(Frac(x * 14, 10))

get_wind_data(d, t) ==
    LET wind_80m     == get_variable_stats(d, "wind_speed_80m", t)
        wind_dir_80m == get_variable_stats(d, "wind_direction_80m", t)
        wind_10m     == get_variable_stats(d, "wind_speed_10m", t)
        wind_dir_10m == get_variable_stats(d, "wind_direction_10m", t)
    IN  IF ~wind_80m.none /\ wind_80m.mean > 0
        THEN [wind_speed     |-> WindBlock(AllKeys, wind_80m),
              wind_height    |-> "80m",
              wind_direction |->
                  IF ~wind_dir_80m.none /\ wind_dir_80m.mean >= 0
                  THEN Degrees(Round(Frac(wind_dir_80m.mean, 10)))
                  ELSE DirectionLabel("N/A")]
        ELSE IF ~wind_10m.none
        THEN [wind_speed     |->
                  WindBlock(AllKeys,
                            [wind_10m EXCEPT !.mean = TerrainAdjusted(wind_10m.mean),
                                             !.min  = TerrainAdjusted(wind_10m.min),
                                             !.max  = TerrainAdjusted(wind_10m.max)]),
              wind_height    |-> "10m_adjusted",
              wind_direction |->
                  IF ~wind_dir_10m.none /\ wind_dir_10m.mean >= 0
                  THEN Degrees(Round(Frac(wind_dir_10m.mean, 10)))
                  ELSE DirectionLabel("Variable")]
        ELSE [wind_speed     |-> WindBlock({"mean", "min", "max"}, NoneStats),
              wind_height    |-> "unavailable",
              wind_direction |-> DirectionLabel("N/A")]

\* metres; temp / 0.0065 of a temperature in tenths is temp * 200 / 13
estimate_snow_level(temp_stats) ==
    IF temp_stats.none THEN 0
    ELSE IF temp_stats.mean <= 0 THEN 920
    ELSE Round(Frac(Max(920 * 13, 620 * 13 + temp_stats.mean * 200), 13))

\* 'N/A', a height in tenths of a metre, or the error of dividing by a zero
\* lapse rate
estimate_freezing_level(d, t) ==
    LET temp_stats == get_variable_stats(d, "temperature_2m", t)
        temp_850   == get_variable_stats(d, "temperature_850hPa", t)
        temp_diff  == temp_stats.mean - temp_850.mean
    IN  IF temp_stats.none THEN [kind |-> "N/A", v |-> 0]
        ELSE IF temp_stats.mean <= 0 THEN [kind |-> "value", v |-> 0]
        ELSE IF ~temp_850.none
        THEN IF temp_diff = 0 THEN [kind |-> "ZeroDivisionError", v |-> 0]
             ELSE [kind |-> "value",
                   v |-> 10 * Round(FracDiv(Frac(1500 * temp_stats.mean, 1),
                                            Frac(temp_diff, 1)))]
        ELSE [kind |-> "value", v |-> 10 * Round(Frac(temp_stats.mean * 200, 13))]

\* round(np.mean(valid * factor > thr), 2), in percent; factor and thr in tenths
Exceedance(valid, factor, thr) ==
    Round(Frac(100 * Cardinality({k \in 1..Len(valid) : valid[k] * factor > thr * 10}),
               Len(valid)))

NoProbs == [present |-> FALSE, low |-> 0, mid |-> 0, high |-> 0]

\* one block of _calculate_probabilities: absent when the variable has no
\* member column or no defined value at the timestamp
probability_block(d, v, t, factor, thr) ==
    LET valid == Valid(RowOf(get_variable_columns(d, v), t))
    IN  IF valid = <<>> THEN NoProbs
        ELSE [present |-> TRUE,
              low  |-> Exceedance(valid, factor, thr[1]),
              mid  |-> Exceedance(valid, factor, thr[2]),
              high |-> Exceedance(valid, factor, thr[3])]

calculate_probabilities(d, t) ==
    LET wind_cols == get_variable_columns(d, "wind_speed")
        factor    == IF wind_cols # <<>> /\ Contains(<<"10m">>, wind_cols[1].name)
                     THEN 14 ELSE 10
    IN  [precipitation |-> probability_block(d, "precipitation", t, 10, <<1, 25, 100>>),
         snow          |-> probability_block(d, "snowfall_calculated", t, 10,
                                             <<1, 50, 150>>),
         strong_winds  |-> probability_block(d, "wind_speed", t, factor,
                                             <<400, 600, 800>>)]

\* one entry of _process_hourly_enhanced; a None block is a key left out
hourly_entry(d, t) ==
    LET temp_stats == get_variable_stats(d, "temperature_2m", t)
        snow_stats == get_variable_stats(d, "snowfall_calculated", t)
        fl_stats   == get_variable_stats(d, "freezing_level_height", t)
        wind_data  == get_wind_data(d, t)
    IN  [time           |-> t,
         temperature_2m |-> temp_stats,
         precipitation  |-> get_variable_stats(d, "precipitation", t),
         snowfall       |-> snow_stats,
         snow_level     |-> IF snow_stats.none THEN NA
                            ELSE Num(estimate_snow_level(temp_stats)),
         wind_speed     |-> wind_data.wind_speed,
         wind_height    |-> wind_data.wind_height,
         wind_direction |-> wind_data.wind_direction,
         freezing_level_height |->
             IF ~fl_stats.none /\ fl_stats.mean > 0
             THEN [kind |-> "value", v |-> fl_stats.mean]
             ELSE estimate_freezing_level(d, t),
         probabilities  |-> calculate_probabilities(d, t)]

process_hourly_enhanced(d) ==
    [i \in 1..Len(d.index) |-> hourly_entry(d, d.index[i])]

\* the calendar day of an hourly timestamp
HoursPerDay == 2
date_of(t) == ((t - 1) \div HoursPerDay) + 1
NumDays == ((NumTimestamps - 1) \div HoursPerDay) + 1

\* hourly_df.index.date == date: a daily label that is a datetime.date
\* selects the hours of its day; a Timestamp compares unequal to every date
same_date(t, date) == date.type = "date" /\ date_of(t) = date.day

\* hourly_df[mask].index
day_rows(hourly_df, date) ==
    SelectSeq(hourly_df.index, LAMBDA t : same_date(t, date))

\* day_data[col].values[~np.isnan(...)]
day_valid(col, rows) == Valid([k \in 1..Len(rows) |-> col.vals[rows[k]]])

MaxSeq(s) == CHOOSE x \in Range(s) : \A y \in Range(s) : y <= x

NoneValue == [none |-> TRUE, f |-> NaNF]

\* _get_daily_value: the mean of the defined member values, or None
get_daily_value(d, date, v) ==
    LET cols  == get_variable_columns(d, v)
        pos   == CHOOSE i \in 1..Len(d.index) : d.index[i] = date
        valid == Valid(RowOf(cols, pos))
    IN  IF cols = <<>> \/ valid = <<>> THEN NoneValue
        ELSE [none |-> FALSE, f |-> Frac(SumSeq(valid), Len(valid))]

\* the members of a variable with a defined value on the day
members_with_data(day_cols, rows) ==
    SelectSeq(day_cols, LAMBDA c : day_valid(c, rows) # <<>>)

\* float(np.mean(xs)) if xs else 0
MeanOrZero(xs) == IF xs = <<>> THEN Frac(0, 1) ELSE Frac(SumSeq(xs), Len(xs))

aggregate_daily_snow(hourly_df, date) ==
    LET rows      == day_rows(hourly_df, date)
        snow_cols == get_variable_columns(hourly_df, "snowfall_calculated")
        members   == members_with_data(snow_cols, rows)
        totals      == [i \in 1..Len(members) |-> SumSeq(day_valid(members[i], rows))]
        max_hourlys == [i \in 1..Len(members) |-> MaxSeq(day_valid(members[i], rows))]
    IN  IF rows = <<>> \/ snow_cols = <<>>
        THEN [total |-> Frac(0, 1), max_hourly |-> Frac(0, 1)]
        ELSE [total |-> MeanOrZero(totals), max_hourly |-> MeanOrZero(max_hourlys)]

get_daily_wind(d, hourly_df, date) ==
    LET wind_speed == get_daily_value(d, date, "wind_speed_10m_mean")
        wind_dir   == get_daily_value(d, date, "wind_direction_10m_dominant")
        rows       == day_rows(hourly_df, date)
        members    == members_with_data(
                          get_variable_columns(hourly_df, "wind_speed_80m"), rows)
        max_winds  == [i \in 1..Len(members) |-> MaxSeq(day_valid(members[i], rows))]
    IN  IF ~wind_speed.none /\ wind_speed.f.n > 0
        THEN [speed     |-> Round(Frac(wind_speed.f.n * 14, wind_speed.f.d * 10)),
              direction |-> IF wind_dir.none THEN DirectionLabel("Variable")
                            ELSE Degrees(Round(Frac(wind_dir.f.n, wind_dir.f.d * 10))),
              height    |-> "10m_adjusted"]
        ELSE IF max_winds # <<>>
        THEN [speed     |-> Round(Frac(SumSeq(max_winds), Len(max_winds))),
              direction |-> DirectionLabel("Variable"),
              height    |-> "80m"]
        ELSE [speed |-> 0, direction |-> DirectionLabel("N/A"),
              height |-> "unavailable"]

\* metres, as a fraction
aggregate_daily_freezing_level(hourly_df, date) ==
    LET rows       == day_rows(hourly_df, date)
        fl_members == members_with_data(
                          get_variable_columns(hourly_df, "freezing_level_height"), rows)
        all_values == [i \in 1..Len(fl_members) |-> day_valid(fl_members[i], rows)]
        count      == SumSeq([i \in 1..Len(fl_members) |-> Len(all_values[i])])
        total      == SumSeq([i \in 1..Len(fl_members) |-> SumSeq(all_values[i])])
        t_members  == members_with_data(
                          get_variable_columns(hourly_df, "temperature_2m"), rows)
        max_temps  == [i \in 1..Len(t_members) |-> MaxSeq(day_valid(t_members[i], rows))]
    IN  IF rows = <<>> THEN Frac(0, 1)
        ELSE IF fl_members # <<>> THEN Frac(total, count * 10)
        ELSE IF max_temps # <<>> /\ SumSeq(max_temps) > 0
        THEN Frac(SumSeq(max_temps) * 200, Len(max_temps) * 13)
        ELSE Frac(0, 1)

RoundOrNA(x) == IF x.none THEN NA ELSE Num(Round(x.f))

\* _generate_daily_summary compares temperature.max with a number once the
\* day is not dry: with 'N/A' there the comparison is a TypeError
daily_summary_raises(entry) ==
    entry.precipitation_total.v >= 1 /\ entry.temperature.max.na

\* one entry of _process_daily_enhanced (hourly_df is not None)
daily_entry(d, hourly_df, date) ==
    LET precip_sum == get_daily_value(d, date, "precipitation_sum")
        snow_total == aggregate_daily_snow(hourly_df, date)
        fl_daily   == aggregate_daily_freezing_level(hourly_df, date)
    IN  [date        |-> date,
         temperature |->
             [min  |-> RoundOrNA(get_daily_value(d, date, "temperature_2m_min")),
              max  |-> RoundOrNA(get_daily_value(d, date, "temperature_2m_max")),
              mean |-> RoundOrNA(get_daily_value(d, date, "temperature_2m_mean"))],
         precipitation_total |->
             IF precip_sum.none THEN Num(0) ELSE Num(Round(precip_sum.f)),
         snowfall    |-> [total      |-> Num(Round(snow_total.total)),
                          max_hourly |-> Num(Round(snow_total.max_hourly))],
         wind        |-> get_daily_wind(d, hourly_df, date),
         freezing_level |-> IF fl_daily.n > 0 THEN Num(Round(fl_daily)) ELSE NA]

process_daily_enhanced(d, hourly_df) ==
    [i \in 1..Len(d.index) |-> daily_entry(d, hourly_df, d.index[i])]

\* hourly[:24]
First24(hourly) == SubSeq(hourly, 1, Min(Len(hourly), 24))

\* max([h.get(key, {}).get('max', 0) for h in hourly[:24]], default=0)
max_snow_of(hourly) ==
    LET h == First24(hourly)
    IN  IF h = <<>> THEN 0
        ELSE MaxSeq([i \in 1..Len(h) |->
                        IF h[i].snowfall.none THEN 0 ELSE h[i].snowfall.max])

max_wind_of(hourly) ==
    LET h == First24(hourly)
    IN  IF h = <<>> THEN 0
        ELSE MaxSeq([i \in 1..Len(h) |-> h[i].wind_speed.max])

generate_mountain_summary(fc) ==
    LET max_snow == max_snow_of(fc.hourly)
        max_wind == max_wind_of(fc.hourly)
        concerns ==
            (IF max_snow > 50 THEN {"Heavy snowfall"} ELSE {})
            \cup (IF max_wind > 600 THEN {"Strong winds"} ELSE {})
            \cup (IF max_snow > 20 /\ max_wind > 400
                  THEN {"Poor visibility likely"} ELSE {})
        d3 == SubSeq(fc.daily, 1, Min(Len(fc.daily), 3))
        snow_total   == SumSeq([i \in 1..Len(d3) |-> d3[i].snowfall.total.v])
        precip_total == SumSeq([i \in 1..Len(d3) |-> d3[i].precipitation_total.v])
    IN  [executive_summary |->
             IF fc.daily = <<>> THEN ""
             ELSE IF snow_total > 300 THEN "Significant snow accumulation"
             ELSE IF snow_total > 50 THEN "Moderate snow expected"
             ELSE IF precip_total > 100 THEN "Wet conditions expected"
             ELSE "Generally dry conditions",
         key_concerns |-> concerns,
         rating |-> IF Cardinality(concerns) >= 2 THEN "POOR"
                    ELSE IF Cardinality(concerns) = 1 THEN "FAIR" ELSE "GOOD"]

generate_mountain_alerts(fc) ==
    LET h == First24(fc.hourly)
        next_24h_snow == SumSeq([i \in 1..Len(h) |->
                                    IF h[i].snowfall.none THEN 0
                                    ELSE h[i].snowfall.mean])
    IN  IF fc.hourly = <<>> THEN {}
        ELSE (IF next_24h_snow > 300 THEN {"HEAVY_SNOW"} ELSE {})
             \cup (IF max_wind_of(fc.hourly) > 800 THEN {"HIGH_WIND"} ELSE {})
             \cup (IF /\ Len(fc.hourly) >= 24
                      /\ fc.hourly[1].freezing_level_height.kind = "value"
                      /\ fc.hourly[24].freezing_level_height.kind = "value"
                      /\ Abs(fc.hourly[24].freezing_level_height.v
                             - fc.hourly[1].freezing_level_height.v) > 5000
                   THEN {"FREEZING_LEVEL_CHANGE"} ELSE {})

-----------------------------------------------------------------------------
(* generate_forecast on the tables of one request: the hourly table of one  *)
(* or two models and the daily table of the first of them; pc is the        *)
(* position inside generate_forecast.                                       *)

\* the variable of the i-th column of a table shape
VarOfColumn(shape, i) ==
    shape.vars[(((i - 1) \div shape.nmem) % Len(shape.vars)) + 1]

\* every filling of the columns from the i-th on, over n rows
RECURSIVE ColumnValues(_, _, _)
ColumnValues(shape, i, n) ==
    IF i > Len(ColumnNames(shape)) THEN {<<>>}
    ELSE {<<s>> \o rest :
            s \in [1..n -> shape.cells[VarOfColumn(shape, i)]],
            rest \in ColumnValues(shape, i + 1, n)}

\* a shape names, besides its columns, the values a cell of each variable
\* takes
HourlyShapes ==
    { [models |-> <<60>>, nmem |-> 1,
       vars |-> <<"temperature_2m", "relative_humidity_2m", "precipitation",
                  "wind_speed_80m">>,
       cells |-> [temperature_2m |-> {-40, 20}, relative_humidity_2m |-> {850},
                  precipitation |-> {NaN, 100}, wind_speed_80m |-> {NaN, 300}]],
      [models |-> <<60, 61>>, nmem |-> 1,
       vars |-> <<"temperature_2m", "relative_humidity_2m", "precipitation">>,
       cells |-> [temperature_2m |-> {-40, 20}, relative_humidity_2m |-> {850},
                  precipitation |-> {100}]],
      [models |-> <<60>>, nmem |-> 2,
       vars |-> <<"temperature_2m", "relative_humidity_2m", "precipitation">>,
       cells |-> [temperature_2m |-> {-40}, relative_humidity_2m |-> {850},
                  precipitation |-> {NaN, 50, 100}]],
      [models |-> <<60>>, nmem |-> 1,
       vars |-> <<"temperature_2m", "wind_speed_10m">>,
       cells |-> [temperature_2m |-> {-40}, wind_speed_10m |-> {NaN, 100}]] }

DailyShape ==
    [models |-> <<60>>, nmem |-> 1,
     vars |-> <<"temperature_2m_max", "precipitation_sum">>,
     cells |-> [temperature_2m_max |-> {NaN, 30}, precipitation_sum |-> {NaN, 100}]]

\* the daily frame: its index labels are dates or Timestamps
process_daily(shape, values, type) ==
    LET names == ColumnNames(shape)
    IN  [index |-> [k \in 1..NumDays |-> [day |-> k, type |-> type]],
         cols  |-> [i \in 1..Len(names) |-> [name |-> names[i], vals |-> values[i]]]]

\* two responses whose variable lists differ: the first model comes without
\* relative humidity
MixedResponses ==
    << [models |-> <<60>>, nmem |-> 1,
        vars |-> <<"temperature_2m", "precipitation">>,
        cells |-> [temperature_2m |-> {-40}, precipitation |-> {100}]],
       [models |-> <<17>>, nmem |-> 1,
        vars |-> <<"temperature_2m", "relative_humidity_2m", "precipitation">>,
        cells |-> [temperature_2m |-> {20}, relative_humidity_2m |-> {500, 850},
                   precipitation |-> {100}]] >>

\* pd.concat([a, b], axis=1) of two per-response frames over the same hours
concat_frames(a, b) == [index |-> a.index, cols |-> a.cols \o b.cols]

ForecastInit ==
    /\ \/ \E shape \in HourlyShapes :
              \E values \in ColumnValues(shape, 1, NumTimestamps) :
                  df = process_responses(shape, values)
       \/ \E va \in ColumnValues(MixedResponses[1], 1, NumTimestamps),
             vb \in ColumnValues(MixedResponses[2], 1, NumTimestamps) :
              df = concat_frames(process_responses(MixedResponses[1], va),
                                 process_responses(MixedResponses[2], vb))
    /\ \E values \in ColumnValues(DailyShape, 1, NumDays) :
           \E type \in {"date", "Timestamp"} :
               daily_df = process_daily(DailyShape, values, type)
    /\ result = NoResult
    /\ pc = "start"
    /\ forecast = NoForecast
    /\ PARAMS = DocumentedDefaults
    /\ cache = EmptyCache
    /\ requests = NoRequests
    /\ now = 0
    /\ args = NoArgs

CalculateEnsembleSnowfall ==
    /\ pc = "start"
    /\ df' = calculate_ensemble_snowfall(df)
    /\ pc' = "hourly"
    /\ UNCHANGED <<daily_df, result, forecast, PARAMS, args, cache, requests, now>>

\* an error inside an entry leaves generate_forecast without a forecast
ProcessHourlyEnhanced ==
    /\ pc = "hourly"
    /\ LET entries == process_hourly_enhanced(df)
       IN  IF \E i \in 1..Len(entries) :
                  entries[i].freezing_level_height.kind = "ZeroDivisionError"
           THEN pc' = "raised" /\ UNCHANGED forecast
           ELSE pc' = "daily" /\ forecast' = [forecast EXCEPT !.hourly = entries]
    /\ UNCHANGED <<df, daily_df, result, PARAMS, args, cache, requests, now>>

ProcessDailyEnhanced ==
    /\ pc = "daily"
    /\ LET entries == process_daily_enhanced(daily_df, df)
       IN  IF \E i \in 1..Len(entries) : daily_summary_raises(entries[i])
           THEN pc' = "raised" /\ UNCHANGED forecast
           ELSE pc' = "summary" /\ forecast' = [forecast EXCEPT !.daily = entries]
    /\ UNCHANGED <<df, daily_df, result, PARAMS, args, cache, requests, now>>

GenerateSummaryAndAlerts ==
    /\ pc = "summary"
    /\ forecast' = [forecast EXCEPT !.summary = generate_mountain_summary(forecast),
                                    !.alerts  = generate_mountain_alerts(forecast)]
    /\ pc' = "done"
    /\ UNCHANGED <<df, daily_df, result, PARAMS, args, cache, requests, now>>

ForecastNext ==
    \/ CalculateEnsembleSnowfall
    \/ ProcessHourlyEnhanced
    \/ ProcessDailyEnhanced
    \/ GenerateSummaryAndAlerts

ForecastSpec == ForecastInit /\ [][ForecastNext]_vars

-----------------------------------------------------------------------------
(* ForecastGenerator._process_hourly, as generate_forecast calls it on      *)
(* data['hourly'].                                                          *)

\* generate_forecast's default variables
DefaultVariables ==
    <<"temperature_2m", "precipitation", "wind_speed_80m", "wind_direction_80m",
      "wind_speed_10m", "wind_direction_10m", "freezing_level_height",
      "snowfall">>

\* the window calculate_trend is called with
DefaultWindow == 3

\* calculate_trend(stats_df['mean'])[idx]: the series is the row means
mean_trend(means, k) ==
    IF k <= DefaultWindow THEN "stable"
    ELSE classify_trend(FracDiv(FracSub(means[k], means[k - DefaultWindow]),
                                Frac(10 * DefaultWindow, 1)))

\* entry[var]: get_statistics_dict of the row plus its trend
variable_block(d, v, t) ==
    LET st == calculate_statistics(d, v).value
    IN  [stats |-> st[t],
         trend |-> mean_trend([k \in 1..Len(st) |-> st[k].mean], t)]

\* [col for col in df.columns if 'member' in col]
member_column_names(d) ==
    {d.cols[i].name : i \in {j \in 1..Len(d.cols) :
                                Contains(<<"member">>, d.cols[j].name)}}

\* 'precipitation' in [col for col in df.columns if 'member' in col]: the
\* list holds whole column names, so the test is equality with a name
is_member_column(d, v) == VarWords(v) \in member_column_names(d)

\* 'wind' in str(df.columns)
mentions_wind(d) == \E i \in 1..Len(d.cols) : Contains(<<"wind">>, d.cols[i].name)

\* entry['probabilities'] at row t: the keys present and their values
hourly_probabilities(d, t) ==
    LET precip == is_member_column(d, "precipitation")
        temp   == is_member_column(d, "temperature_2m")
        wind   == mentions_wind(d)
        pp     == calculate_precipitation_probabilities(d)
        tp     == calculate_temperature_probabilities(d)
        wp     == calculate_wind_probabilities(d, "wind_speed_80m")
    IN  [keys |-> (IF precip THEN {"precipitation"} ELSE {})
                    \cup (IF temp THEN {"freezing"} ELSE {})
                    \cup (IF wind THEN {"strong_winds"} ELSE {}),
         measurable   |-> IF precip THEN pp.value[t][1] ELSE NaNF,
         heavy        |-> IF precip THEN pp.value[t][2] ELSE NaNF,
         freezing     |-> IF temp THEN tp.value[t][1] ELSE NaNF,
         strong_winds |-> IF wind THEN wp.value[t][2] ELSE NaNF]

\* a probability function that is called and finds no column of its variable
hourly_raises(d) ==
    \/ is_member_column(d, "precipitation")
          /\ get_variable_columns(d, "precipitation") = <<>>
    \/ is_member_column(d, "temperature_2m")
          /\ get_variable_columns(d, "temperature_2m") = <<>>
    \/ mentions_wind(d) /\ get_variable_columns(d, "wind_speed_80m") = <<>>

\* the variables of the list that have member columns, in list order
present_variables(d, variables) ==
    SelectSeq(variables, LAMBDA v : get_variable_columns(d, v) # <<>>)

process_hourly(d, variables) ==
    IF hourly_raises(d)
    THEN [status |-> "ValueError", value |-> <<>>]
    ELSE [status |-> "ok",
          value  |-> [t \in 1..Len(d.index) |->
              LET present == present_variables(d, variables)
              IN  [time          |-> d.index[t],
                   variables     |-> present,
                   blocks        |-> [k \in 1..Len(present) |->
                                         variable_block(d, present[k], t)],
                   probabilities |-> hourly_probabilities(d, t)]]]

ProcessHourlyShapes ==
    { [models |-> <<60>>, nmem |-> 1,
       vars |-> <<"temperature_2m", "precipitation">>,
       cells |-> [temperature_2m |-> {NaN, -10, 20},
                  precipitation |-> {NaN, 0, 60}]],
      [models |-> <<2>>, nmem |-> 1,
       vars |-> <<"temperature_2m", "wind_speed_80m">>,
       cells |-> [temperature_2m |-> {-10, 20}, wind_speed_80m |-> {100, 450}]],
      [models |-> <<17>>, nmem |-> 1,
       vars |-> <<"precipitation", "wind_speed_10m">>,
       cells |-> [precipitation |-> {0, 60}, wind_speed_10m |-> {100, 450}]] }

VariableLists == {DefaultVariables, <<"temperature_2m">>}

NoHourlyResult == [op |-> "none", status |-> "none", value |-> <<>>]

ProcessHourlyInit ==
    /\ \E shape \in ProcessHourlyShapes :
           \E values \in ColumnValues(shape, 1, NumTimestamps) :
               df = process_responses(shape, values)
    /\ daily_df = EmptyFrame
    /\ forecast = NoForecast
    /\ PARAMS = DocumentedDefaults
    /\ cache = EmptyCache
    /\ requests = NoRequests
    /\ now = 0
    /\ args = NoArgs
    /\ pc = "start"
    /\ result = NoHourlyResult

ProcessHourly(variables) ==
    /\ pc = "start"
    /\ LET r == process_hourly(df, variables)
       IN  result' = [op |-> "process_hourly", status |-> r.status,
                      value |-> r.value]
    /\ pc' = "done"
    /\ UNCHANGED <<df, daily_df, forecast, PARAMS, args, cache, requests, now>>

ProcessHourlyNext == \E variables \in VariableLists : ProcessHourly(variables)

ProcessHourlySpec == ProcessHourlyInit /\ [][ProcessHourlyNext]_vars

-----------------------------------------------------------------------------
(* identify_outliers with its default threshold on the per-model means of a *)
(* table of all four models compare_models recognises.                      *)

FourModels ==
    [models |-> <<60, 61, 17, 2>>, nmem |-> 1, vars |-> <<"temperature_2m">>,
     cells |-> [temperature_2m |-> {-50, -48}]]

OutliersInit ==
    /\ \E values \in ColumnValues(FourModels, 1, NumTimestamps) :
           df = process_responses(FourModels, values)
    /\ daily_df = EmptyFrame
    /\ result = NoResult
    /\ pc = "idle"
    /\ forecast = NoForecast
    /\ PARAMS = DocumentedDefaults
    /\ cache = EmptyCache
    /\ requests = NoRequests
    /\ now = 0
    /\ args = NoArgs

OutliersNext ==
    \E models \in (SUBSET Range(KnownModels)) \ {{}} :
        IdentifyOutliers("temperature_2m", models, 15)

OutliersSpec == OutliersInit /\ [][OutliersNext]_vars

-----------------------------------------------------------------------------
(* RateLimiter *)

\* RateLimiter(requests_per_minute): the limit given at construction
requests_per_minute == 2

\* minute_ago = now - 60
Minute == 60

\* the client addresses that call
IPs == {"10.0.0.1", "10.0.0.2"}

\* seconds by which time.time() has advanced since the previous call
ClockSteps == {0, 1, 59}

\* the longest sequence of calls followed
MaxCalls == 5

\* the latest clock value followed
MaxTime == 130

\* [t for t in self.requests[ip] if t > minute_ago]
clean_old(list, t) == SelectSeq(list, LAMBDA s : s > t - Minute)

at_limit_exclusive(list) == Len(list) > requests_per_minute

\* len(self.requests[ip]) >= self.requests_per_minute
at_limit(list) == Len(list) >= requests_per_minute

is_allowed_records_denied(reqs, ip, t) ==
    LET cleaned == IF ip \in DOMAIN reqs THEN clean_old(reqs[ip], t)
                   ELSE <<>>
        held    == [i \in (DOMAIN reqs) \cup {ip} |->
                       IF i = ip THEN Append(cleaned, t) ELSE reqs[i]]
    IN  [allowed |-> ~at_limit(cleaned), requests |-> held]

\* RateLimiter.is_allowed at clock value t: the answer and the new table
is_allowed(reqs, ip, t) ==
    LET cleaned == IF ip \in DOMAIN reqs THEN clean_old(reqs[ip], t)
                   ELSE <<>>
        held    == [i \in (DOMAIN reqs) \cup {ip} |->
                       IF i = ip THEN cleaned ELSE reqs[i]]
    IN  IF at_limit(cleaned)
        THEN [allowed |-> FALSE, requests |-> held]
        ELSE [allowed |-> TRUE,
              requests |-> [held EXCEPT ![ip] = Append(cleaned, t)]]

NoLimiterResult ==
    [op |-> "none", ip |-> "none", allowed |-> FALSE, calls |-> <<>>]

LimiterInit ==
    /\ df = EmptyFrame
    /\ daily_df = EmptyFrame
    /\ forecast = NoForecast
    /\ PARAMS = DocumentedDefaults
    /\ cache = EmptyCache
    /\ requests = NoRequests
    /\ now = 0
    /\ pc = "serving"
    /\ result = NoLimiterResult
    /\ args = NoArgs

\* one call rate_limiter.is_allowed(ip); the clock never runs backwards
IsAllowed(ip, step) ==
    /\ pc = "serving"
    /\ Len(result.calls) < MaxCalls
    /\ now + step <= MaxTime
    /\ now' = now + step
    /\ LET r == is_allowed(requests, ip, now + step)
       IN  /\ requests' = r.requests
           /\ result' = [op |-> "is_allowed", ip |-> ip,
                         allowed |-> r.allowed,
                         calls |-> Append(result.calls,
                                          [ip |-> ip, t |-> now + step,
                                           allowed |-> r.allowed])]
    /\ UNCHANGED <<df, daily_df, forecast, PARAMS, args, cache, pc>>

LimiterNext == \E ip \in IPs, step \in ClockSteps : IsAllowed(ip, step)

LimiterSpec == LimiterInit /\ [][LimiterNext]_vars

-----------------------------------------------------------------------------
(* APICache.cache_endpoint around get_forecast *)

\* @APICache.cache_endpoint(ttl=600), in seconds
ttl == 600

\* the most requests followed
MaxRequests == 2

\* seconds between two requests
RequestSteps == {0, 600}

\* coordinates are in thousandths of a degree; 95.000 is out of range
Latitudes == {45120, 45124, 95000}
Longitudes == {-122950}
LocationNames == {"Whistler", "Blackcomb"}
Elevations == {None, 2000}

\* the two applications that wrap get_forecast with the cache
Apps == {"forecast_api_v2", "simple_api_update"}

\* what can go wrong while a request is served: the Redis server refuses
\* the read, or the write, or the forecast computation raises
Faults == {"none", "cache_get", "cache_set", "run_forecast"}

\* the JSON bodies a client of the application can post; forecast_api_v2
\* reads neither elevation nor mountain_format
Requests(app) ==
    [ip : {"10.0.0.1"}, latitude : Latitudes, longitude : Longitudes,
     forecast_days : {3}, simplified : BOOLEAN,
     location_name : LocationNames,
     elevation : IF app = "simple_api_update" THEN Elevations ELSE {None},
     mountain_format : IF app = "simple_api_update" THEN BOOLEAN
                       ELSE {TRUE}]

\* round(x, 2) of a value in thousandths, as hundredths; a last digit 5 is
\* resolved to the even neighbour
round2(x) ==
    LET q == x \div 10
        r == x % 10
    IN  IF r < 5 THEN q
        ELSE IF r > 5 THEN q + 1
        ELSE IF q % 2 = 0 THEN q ELSE q + 1

\* APICache.generate_cache_key: the parts joined by ':'
generate_cache_key(lat, lon, days, simplified) ==
    <<"forecast", round2(lat), round2(lon), days, simplified>>

\* APICache.get_cached_response at clock value t: the stored data of a live
\* entry, None (found FALSE) otherwise; an expired entry is gone
get_cached_response(c, key, t) ==
    IF key \in DOMAIN c /\ t < c[key].expiry
    THEN [found |-> TRUE, data |-> c[key].data, cache |-> c]
    ELSE [found |-> FALSE, data |-> None,
          cache |-> [k \in (DOMAIN c) \ {key} |-> c[k]]]

\* APICache.set_cached_response at clock value t
set_cached_response(c, key, data, t) ==
    [k \in (DOMAIN c) \cup {key} |->
        IF k = key THEN [data |-> data, expiry |-> t + ttl] ELSE c[k]]

\* the range checks of get_forecast
in_range(req) ==
    /\ -90000 <= req.latitude /\ req.latitude <= 90000
    /\ -180000 <= req.longitude /\ req.longitude <= 180000
    /\ 1 <= req.forecast_days /\ req.forecast_days <= 16

\* the body get_forecast builds for a request: the location it names, the
\* format it has and the elevation it reports
response_of(app, req) ==
    [name      |-> req.location_name,
     latitude  |-> req.latitude,
     longitude |-> req.longitude,
     days      |-> req.forecast_days,
     format    |-> IF req.simplified
                   THEN IF app = "simple_api_update" /\ req.mountain_format
                        THEN "mountain" ELSE "simplified"
                   ELSE "full",
     elevation |-> IF app = "simple_api_update" /\ req.simplified
                      /\ req.mountain_format
                   THEN req.elevation ELSE None]

\* one invocation of get_forecast: what it returns (a response object, or
\* a (response, status) pair), the limiter table it leaves, and whether it
\* took a limiter slot and ran a forecast
get_forecast(app, req, reqs, t, fault) ==
    LET lim == IF app = "forecast_api_v2"
               THEN is_allowed(reqs, req.ip, t)
               ELSE [allowed |-> TRUE, requests |-> reqs]
        slot == IF app = "forecast_api_v2" /\ lim.allowed THEN 1 ELSE 0
    IN  IF ~lim.allowed
        THEN [pair |-> TRUE, status |-> 429, body |-> None,
              requests |-> lim.requests, slots |-> 0, computations |-> 0]
        ELSE IF ~in_range(req)
        THEN [pair |-> TRUE, status |-> 400, body |-> None,
              requests |-> lim.requests, slots |-> slot, computations |-> 0]
        ELSE IF fault = "run_forecast"
        THEN [pair |-> TRUE, status |-> 500, body |-> None,
              requests |-> lim.requests, slots |-> slot, computations |-> 1]
        ELSE [pair |-> FALSE, status |-> 200, body |-> response_of(app, req),
              requests |-> lim.requests, slots |-> slot, computations |-> 1]

\* the wrapper of cache_endpoint around one request: the response sent, the
\* cache and the limiter table afterwards, and how often get_forecast ran
cache_endpoint(app, req, c, reqs, t, fault) ==
    LET key    == generate_cache_key(req.latitude, req.longitude,
                                     req.forecast_days, req.simplified)
        got    == get_cached_response(c, key, t)
        first  == get_forecast(app, req, reqs, t, fault)
        second == get_forecast(app, req, first.requests, t, fault)
        sent(r, n, s, k, store) ==
            [hit |-> FALSE, status |-> r.status, body |-> r.body,
             calls |-> n, slots |-> s, computations |-> k,
             cache |-> store, requests |-> r.requests]
    IN  IF fault = "cache_get"
        THEN sent(first, 1, first.slots, first.computations, c)
        ELSE IF got.found
        THEN [hit |-> TRUE, status |-> 200, body |-> got.data,
              calls |-> 0, slots |-> 0, computations |-> 0,
              cache |-> got.cache, requests |-> reqs]
        ELSE IF first.pair \/ fault = "cache_set"
        THEN sent(second, 2, first.slots + second.slots,
                  first.computations + second.computations, got.cache)
        ELSE sent(first, 1, first.slots, first.computations,
                  set_cached_response(got.cache, key, first.body, t))

NoApiResult ==
    [op |-> "none", served |-> 0, request |-> None, hit |-> FALSE,
     status |-> 0, body |-> None, calls |-> 0, slots |-> 0,
     computations |-> 0]

ApiInit ==
    /\ df = EmptyFrame
    /\ daily_df = EmptyFrame
    /\ forecast = NoForecast
    /\ PARAMS = DocumentedDefaults
    /\ cache = EmptyCache
    /\ requests = NoRequests
    /\ now = 0
    /\ pc = "serving"
    /\ result = NoApiResult
    /\ \E app \in Apps, available \in BOOLEAN :
          args = [fn |-> "get_forecast", app |-> app,
                  CACHE_AVAILABLE |-> available]

\* one POST /api/forecast, from the wrapper's first line to the response
HandleRequest(req, step, fault) ==
    /\ pc = "serving"
    /\ result.served < MaxRequests
    /\ req \in Requests(args.app)
    /\ fault \in {"cache_get", "cache_set"} => args.CACHE_AVAILABLE
    /\ now' = now + step
    /\ LET r == cache_endpoint(args.app, req, cache, requests, now + step,
                               fault)
       IN  /\ cache' = r.cache
           /\ requests' = r.requests
           /\ result' = [op |-> "request", served |-> result.served + 1,
                         request |-> req, hit |-> r.hit,
                         status |-> r.status, body |-> r.body,
                         calls |-> r.calls, slots |-> r.slots,
                         computations |-> r.computations]
    /\ UNCHANGED <<df, daily_df, forecast, PARAMS, args, pc>>

ApiNext ==
    \E app \in Apps, step \in RequestSteps, fault \in Faults :
        \E req \in Requests(app) : HandleRequest(req, step, fault)

ApiSpec == ApiInit /\ [][ApiNext]_vars

-----------------------------------------------------------------------------
(* Vocabulary of the properties *)

\* the structured key of a column: its variable is v when the name is
\* <model words> \o <words of v> \o <<"member", k>>
IsColumnOf(c, v) ==
    LET n == Len(c.name)
        w == VarWords(v)
    IN  /\ n - 2 - Len(w) \in {1, 2}
        /\ SubSeq(c.name, n - 1 - Len(w), n - 2) = w
        /\ c.name[n - 1] = "member"

\* the columns of d whose variable is v, as positions in d.cols
ColumnsOf(d, v) == {i \in 1..Len(d.cols) : IsColumnOf(d.cols[i], v)}

\* the model of a column whose variable is v: the words before the variable
ColumnModel(c, v) == SubSeq(c.name, 1, Len(c.name) - 2 - Len(VarWords(v)))

\* the distinct models that contribute member columns for v
ContributingModels(d, v) ==
    {ColumnModel(d.cols[i], v) : i \in ColumnsOf(d, v)}

\* the positions of the columns named in names
Positions(d, names) == {i \in 1..Len(d.cols) : d.cols[i].name \in Range(names)}

\* the positions among P whose cell at row t is defined
DefinedAt(d, P, t) == {i \in P : d.cols[i].vals[t] # NaN}

CellAt(d, t) == [i \in 1..Len(d.cols) |-> d.cols[i].vals[t]]

ProbabilityOps == {"calculate_precipitation_probabilities",
                   "calculate_temperature_probabilities",
                   "calculate_wind_probabilities",
                   "calculate_snow_probabilities"}

-----------------------------------------------------------------------------
(* C1: calculate_probability returns at every timestamp the number of       *)
(* member columns of the variable that are defined and satisfy the          *)
(* condition, divided by the number of member columns of the variable that  *)
(* are defined at that timestamp (undefined members are in neither count).  *)
C1_ProbabilityOverDefined ==
    (result.op = "calculate_probability" /\ result.status = "ok") =>
        \A t \in 1..Len(df.index) :
            LET D == DefinedAt(df, ColumnsOf(df, result.variable), t)
                S == {i \in D : Meets(result.cond, df.cols[i].vals[t])}
            IN  D # {} =>
                  /\ ~IsNaNF(result.value[t])
                  /\ FracEq(result.value[t], Frac(Cardinality(S), Cardinality(D)))

(* C2: at a timestamp where no member of the variable is defined,           *)
(* calculate_probability and the named probabilities built on it yield the  *)
(* undefined marker, never the number 0.                                    *)
C2_UndefinedProbability ==
    (result.status = "ok"
       /\ result.op \in ProbabilityOps \cup {"calculate_probability"}) =>
        \A t \in 1..Len(df.index) :
            LET P == ColumnsOf(df, result.variable)
            IN  (P # {} /\ DefinedAt(df, P, t) = {}) =>
                  IF result.op = "calculate_probability"
                  THEN IsNaNF(result.value[t])
                  ELSE \A k \in DOMAIN result.value[t] : IsNaNF(result.value[t][k])

(* C3: calculate_statistics and calculate_probability reduce over exactly   *)
(* the member columns whose variable is the requested one; a column of a    *)
(* different variable whose name contains the requested name is excluded.   *)
C3_ExactVariableColumns ==
    (result.status = "ok"
       /\ result.op \in {"calculate_statistics", "calculate_probability"}) =>
        Positions(df, result.cols) = ColumnsOf(df, result.variable)

-----------------------------------------------------------------------------
\* the ensemble members (model, member index) of d that have a temperature,
\* a humidity and a precipitation column
MemberOf(c, v) == [model |-> ColumnModel(c, v), member |-> c.name[Len(c.name)]]

MembersOf(d, v) == {MemberOf(d.cols[i], v) : i \in ColumnsOf(d, v)}

EnsembleMembers(d) ==
    MembersOf(d, "temperature_2m") \cap MembersOf(d, "relative_humidity_2m")
        \cap MembersOf(d, "precipitation")

MemberSeries(d, v, mm) ==
    d.cols[CHOOSE i \in ColumnsOf(d, v) : MemberOf(d.cols[i], v) = mm].vals

\* what the snow engine yields for one member over the hours of d
EngineSeries(d, mm) ==
    [t \in 1..Len(d.index) |->
        calculate_snowfall(MemberSeries(d, "temperature_2m", mm)[t],
                           MemberSeries(d, "relative_humidity_2m", mm)[t],
                           MemberSeries(d, "precipitation", mm)[t], 10, NoKwargs)]

(* C4: after _calculate_ensemble_snowfall the hourly table holds exactly one *)
(* snowfall_calculated column for each ensemble member (model, member       *)
(* index) that has temperature, humidity and precipitation columns, and     *)
(* each member's derived series is in the table as the snow engine produced *)
(* it: none is overwritten by or merged with another model's member.        *)
C4_OneSnowfallColumnPerMember ==
    (pc \in {"hourly", "daily", "summary", "done"}) =>
        LET S == ColumnsOf(df, "snowfall_calculated")
            M == EnsembleMembers(df)
        IN  /\ Cardinality(S) = Cardinality(M)
            /\ \A mm \in M :
                  \E i \in S : /\ df.cols[i].name[Len(df.cols[i].name)] = mm.member
                               /\ df.cols[i].vals = EngineSeries(df, mm)

\* the hours of a calendar day
HoursOf(d, day) == {t \in 1..Len(d.index) : date_of(d.index[t]) = day}

(* C5: in the assembled forecast a timestamp or day at which a variable has *)
(* no defined member value carries a missing marker and never the number 0: *)
(* the hourly wind_speed block, the daily precipitation_total, and the      *)
(* daily snowfall total and max_hourly.                                     *)
C5_MissingNeverZero ==
    (pc = "done") =>
        /\ \A t \in 1..Len(forecast.hourly) :
              DefinedAt(df, ColumnsOf(df, "wind_speed_80m")
                                \cup ColumnsOf(df, "wind_speed_10m"), t) = {}
                  => ~("mean" \in forecast.hourly[t].wind_speed.keys
                          /\ forecast.hourly[t].wind_speed.mean = 0)
        /\ \A k \in 1..Len(forecast.daily) :
              LET e == forecast.daily[k]
              IN  /\ DefinedAt(daily_df, ColumnsOf(daily_df, "precipitation_sum"), k) = {}
                        => e.precipitation_total.na
                  /\ (\A t \in HoursOf(df, e.date.day) :
                          DefinedAt(df, ColumnsOf(df, "snowfall_calculated"), t) = {})
                        => e.snowfall.total.na /\ e.snowfall.max_hourly.na

-----------------------------------------------------------------------------
(* C6: calculate_statistics returns one row per timestamp of the table; at  *)
(* each timestamp min, max, mean, median and the percentiles are taken over *)
(* the members defined at that timestamp only, and all of them are          *)
(* undefined where no member is defined.                                    *)

\* f is a q-th percentile (linear interpolation) of the cells x over D
IsPercentileOf(f, q, x, D) ==
    /\ ~IsNaNF(f)
    /\ 100 * Cardinality({i \in D : x[i] * f.d <= f.n}) > (Cardinality(D) - 1) * q
    /\ 100 * Cardinality({i \in D : x[i] * f.d < f.n})
          <= (Cardinality(D) - 1) * q + 100
    /\ \E i \in D : x[i] * f.d <= f.n
    /\ \E i \in D : x[i] * f.d >= f.n

C6_StatisticsOverDefined ==
    (result.op = "calculate_statistics" /\ result.status = "ok") =>
        /\ Len(result.value) = Len(df.index)
        /\ \A t \in 1..Len(df.index) :
             LET x == CellAt(df, t)
                 D == DefinedAt(df, Positions(df, result.cols), t)
                 r == result.value[t]
             IN  IF D = {}
                 THEN \A f \in {r.min, r.max, r.mean, r.median,
                                r.p10, r.p25, r.p75, r.p90} : IsNaNF(f)
                 ELSE /\ ~IsNaNF(r.min) /\ ~IsNaNF(r.max) /\ ~IsNaNF(r.mean)
                      /\ \E i \in D : FracEq(r.min, Frac(x[i], 1))
                      /\ \A i \in D : FracLeq(r.min, Frac(x[i], 1))
                      /\ \E i \in D : FracEq(r.max, Frac(x[i], 1))
                      /\ \A i \in D : FracLeq(Frac(x[i], 1), r.max)
                      /\ FracEq(r.mean, Frac(SetSum(x, D), Cardinality(D)))
                      /\ IsPercentileOf(r.median, 50, x, D)
                      /\ IsPercentileOf(r.p10, 10, x, D)
                      /\ IsPercentileOf(r.p25, 25, x, D)
                      /\ IsPercentileOf(r.p75, 75, x, D)
                      /\ IsPercentileOf(r.p90, 90, x, D)

\* a statistics result with one row where no member is defined and one row
\* where some, but not all, members are
C6_Witness ==
    /\ result.op = "calculate_statistics" /\ result.status = "ok"
    /\ \E t \in 1..Len(df.index) :
          DefinedAt(df, Positions(df, result.cols), t) = {}
    /\ \E t \in 1..Len(df.index) :
          LET D == DefinedAt(df, Positions(df, result.cols), t)
          IN  D # {} /\ D # Positions(df, result.cols)

(* C7: wherever at least one member is defined, the statistics record       *)
(* satisfies min <= p10 <= p25 <= median <= p75 <= p90 <= max.              *)
C7_PercentileOrder ==
    (result.op = "calculate_statistics" /\ result.status = "ok") =>
        \A t \in 1..Len(df.index) :
            LET r == result.value[t]
            IN  DefinedAt(df, Positions(df, result.cols), t) # {} =>
                  /\ FracLeq(r.min, r.p10)
                  /\ FracLeq(r.p10, r.p25)
                  /\ FracLeq(r.p25, r.median)
                  /\ FracLeq(r.median, r.p75)
                  /\ FracLeq(r.p75, r.p90)
                  /\ FracLeq(r.p90, r.max)

\* a statistics row over members that differ, given out of order
C7_Witness ==
    /\ result.op = "calculate_statistics" /\ result.status = "ok"
    /\ \E t \in 1..Len(df.index) :
          LET P == Positions(df, result.cols)
              r == result.value[t]
          IN  /\ \E i, j \in DefinedAt(df, P, t) :
                    i < j /\ df.cols[i].vals[t] > df.cols[j].vals[t]
              /\ ~FracEq(r.min, r.max)
              /\ ~FracEq(r.p10, r.p90)

(* C8: calculate_statistics and calculate_probability raise the usage error *)
(* exactly when no member column of the table matches the requested         *)
(* variable and then return nothing; when matching columns exist the call   *)
(* returns a row per timestamp, even where no value is defined.             *)
NameMatches(c, v) ==
    /\ \E i \in 1..Len(c.name) : c.name[i] = "member"
    /\ \E i \in 1..Len(c.name) :
          /\ i + Len(VarWords(v)) - 1 <= Len(c.name)
          /\ \A k \in 1..Len(VarWords(v)) : c.name[i + k - 1] = VarWords(v)[k]

-----------------------------------------------------------------------------
(* C9: compare_models raises the usage error exactly when fewer than 2      *)
(* distinct models contribute member columns for the variable; with 2 or    *)
(* more, whatever their ids, it returns a mean series per contributing      *)
(* model.                                                                   *)
C9_InsufficientModels ==
    (result.op = "compare_models") =>
        /\ result.status = "ValueError"
              <=> Cardinality(ContributingModels(df, result.variable)) < 2
        /\ result.status = "ok" =>
              DOMAIN result.value.model_means
                  = ContributingModels(df, result.variable)

(* C10: identify_outliers never returns outlier flags or z-scores for the   *)
(* per-model means of a single model; it raises the usage error instead.    *)
C10_OutliersNeedTwoModels ==
    (result.op = "identify_outliers" /\ result.status = "ok") =>
        \A t \in 1..Len(result.value) :
            Cardinality(DOMAIN result.value[t]) >= 2

-----------------------------------------------------------------------------
(* C11: the coefficient of variation that get_comparison_dict exposes as    *)
(* coefficient_variation, and from which it derives the agreement level, is *)
(* never a not-a-number: not when the cross-model mean at the timestamp is  *)
(* 0 and not when every per-model mean is undefined.                        *)
C11_CvNeverNaN ==
    (result.op = "get_comparison_dict" /\ result.status = "ok") =>
        ~IsNaNF(result.value.coefficient_variation)

-----------------------------------------------------------------------------
\* the mean of the defined member cells of one model's columns of v at row t
MeanOfModel(d, v, model, t) ==
    LET P == DefinedAt(d, {i \in ColumnsOf(d, v) : ColumnModel(d.cols[i], v) = model}, t)
    IN  Frac(SetSum([i \in P |-> d.cols[i].vals[t]], P), Cardinality(P))

\* the sample variance (N - 1) of the defined values of x, NaN below 2 values
SampleVariance(x) ==
    LET D == {m \in DOMAIN x : ~IsNaNF(x[m])}
        k == Cardinality(D)
        S == FracSum(x, D)
        Q == FracSum([m \in D |-> FracMul(x[m], x[m])], D)
    IN  IF k < 2 THEN NaNF
        ELSE FracDiv(FracSub(FracMul(Frac(k, 1), Q), FracMul(S, S)),
                     Frac(k * (k - 1), 1))

MeanOfDefined(x) ==
    LET D == {m \in DOMAIN x : ~IsNaNF(x[m])}
    IN  IF D = {} THEN NaNF ELSE FracDiv(FracSum(x, D), Frac(Cardinality(D), 1))

-----------------------------------------------------------------------------
\* exactly 2 models contribute to v and their means are defined and equal at
\* every timestamp
TwoEqualModels(d, v, models) ==
    /\ Cardinality(models) = 2
    /\ \A t \in 1..Len(d.index) : \A m, o \in models :
          /\ ~IsNaNF(MeanOfModel(d, v, m, t))
          /\ FracEq(MeanOfModel(d, v, m, t), MeanOfModel(d, v, o, t))

(* C13: for a table with exactly 2 models whose per-model means are equal   *)
(* at every timestamp, compare_models gives cv = 0 at every timestamp and   *)
(* identify_outliers flags no model at any timestamp.                       *)
C13_TwoIdenticalModels ==
    /\ (result.op = "compare_models" /\ result.status = "ok"
        /\ TwoEqualModels(df, result.variable, DOMAIN result.value.model_means))
          => \A t \in 1..Len(df.index) :
                /\ result.value.comparison[t].cv2.d # 0
                /\ result.value.comparison[t].cv2.n = 0
    /\ (result.op = "identify_outliers"
        /\ \A t \in 1..Len(df.index) :
              TwoEqualModels(df, result.variable, DOMAIN result.value[t]))
          => \A t \in 1..Len(df.index) : \A m \in DOMAIN result.value[t] :
                ~result.value[t][m].outlier

-----------------------------------------------------------------------------
(* C14: calculate_snowfall never returns a negative depth: for every        *)
(* temperature, humidity, precipitation (negative included), duration and   *)
(* parameter override the result is >= 0, and it is 0 whenever the          *)
(* precipitation is <= 0.                                                   *)
C14_SnowfallNonNegative ==
    (result.op = "calculate_snowfall") =>
        /\ result.value >= 0
        /\ args.precip_mm <= 0 => result.value = 0

-----------------------------------------------------------------------------
(* C15 *)

\* element i of the two arguments of the call
PrecipAt(i) == Broadcast(args.precip_mm, i)
DurationAt(i) == Broadcast(args.duration_h, i)

\* the number of elements the call is over
RateElements ==
    1..(IF args.precip_mm.shape = "array" THEN Len(args.precip_mm.v)
        ELSE Len(args.duration_h.v))

\* C15: rate_factor raises nothing and returns exactly 1 for every element
\* whose duration <= 0 or precip <= 0, for float and array arguments alike;
\* for precip > 0, duration > 0 and delta > 0 the element equals
\* 1 / (1 + delta * precip / duration), and any larger rate gives a strictly
\* smaller factor.
C15_RateFactor ==
    (result.op = "rate_factor") =>
        /\ ~result.raised
        /\ \A i \in RateElements :
              LET p == PrecipAt(i)
                  d == DurationAt(i)
                  f == result.value[i]
              IN  /\ (d <= 0 \/ p <= 0) => FracEq(f, Frac(1, 1))
                  /\ (p > 0 /\ d > 0 /\ result.delta > 0) =>
                        /\ FracEq(f, Frac(1000 * d, 1000 * d + result.delta * p))
                        /\ \A p2 \in RatePrecips, d2 \in RateDurations :
                              (p2 > 0 /\ d2 > 0 /\ p2 * d > p * d2) =>
                                  FracLt(factor_of_rate(rate_of(p2, d2),
                                                        result.delta), f)

-----------------------------------------------------------------------------
(* C16 *)

\* C16: humidity_factor lies in [0.8, 1.2] for every humidity, in or out of
\* 0..100, and every gamma, and is exactly 1.0 at a humidity of 50 %.
C16_HumidityFactorRange ==
    (result.op = "humidity_factor") =>
        /\ 800 <= result.value
        /\ result.value <= 1200
        /\ (args.rh_pct = 500) => (result.value = 1000)

\* a humidity above 100 % with a large gamma: the factor is held at 0.8
C16_Witness ==
    /\ result.op = "humidity_factor"
    /\ args.rh_pct > 1000
    /\ result.kwargs.gamma = 2000
    /\ result.value = 800

-----------------------------------------------------------------------------
(* C17 *)

ParamNames ==
    {"alpha", "beta", "r_min", "r_max", "t_peak", "sigma", "gamma", "delta"}

\* the value each parameter must take in a call with the keywords kwargs
ExpectedParams(kwargs) ==
    [k \in ParamNames |->
        IF k \in DOMAIN kwargs THEN kwargs[k] ELSE DocumentedDefaults[k]]

ExpectedSnowfall(kwargs) ==
    Max(snowfall_steps(ExpectedParams(kwargs), args.temp_c, args.rh_pct,
                       args.precip_mm, args.duration_h), 0)

\* C17: every call of calculate_snowfall computes with the override of each
\* parameter that was passed and the documented default of each that was
\* not, and the shared defaults are the documented ones after every call, an
\* earlier call with overrides included.
C17_OverridesPerCall ==
    /\ PARAMS = DocumentedDefaults
    /\ (result.op = "calculate_snowfall") =>
           result.value = ExpectedSnowfall(result.kwargs)

\* a call with overrides followed by a call without: the second returns the
\* default result, which is not the result the overrides gave
C17_Witness ==
    /\ result.op = "calculate_snowfall"
    /\ Len(result.history) = 2
    /\ result.history[1] # NoKwargs
    /\ result.history[2] = NoKwargs
    /\ result.value > 0
    /\ result.value = ExpectedSnowfall(NoKwargs)
    /\ ExpectedSnowfall(result.history[1]) # result.value

-----------------------------------------------------------------------------
(* C18, C19 *)

\* the rate of change the label at position k is drawn from
RateAt(k) == trend_rate(args.series, k, result.window)

\* the positions with a full window behind them (i >= window)
Classified == {k \in 1..Len(args.series) : k > result.window}

\* C18: for every point i >= window the label is stable iff |rate| < 0.5,
\* rapidly_rising iff rate > 2.0, rising iff 0.5 < rate <= 2.0,
\* rapidly_falling iff rate < -2.0 and falling iff -2.0 <= rate < -0.5, so a
\* point is falling only with a rate below -0.5 and rising only above 0.5.
C18_TrendLabels ==
    (result.op = "calculate_trend") =>
        \A k \in Classified :
            LET rate  == RateAt(k)
                label == result.value[k]
            IN  /\ (label = "stable") <=> FracLt(FracAbs(rate), Frac(1, 2))
                /\ (label = "rapidly_rising") <=> FracGt(rate, Frac(2, 1))
                /\ (label = "rising") <=>
                       (FracGt(rate, Frac(1, 2)) /\ ~FracGt(rate, Frac(2, 1))
                        /\ ~IsNaNF(rate))
                /\ (label = "rapidly_falling") <=> FracLt(rate, Frac(-2, 1))
                /\ (label = "falling") <=>
                       (FracLt(rate, Frac(-1, 2)) /\ ~FracLt(rate, Frac(-2, 1)))

\* C19: calculate_trend returns one label per point, the label at position k
\* belonging to point k, and for every window w >= 1 the first w points (all
\* of them when the series is shorter) are stable.
C19_OneLabelPerPoint ==
    (result.op = "calculate_trend") =>
        /\ Len(result.value) = Len(args.series)
        /\ \A k \in 1..Len(result.value) :
              /\ (k <= result.window) => (result.value[k] = "stable")
              /\ (k \in Classified) =>
                    ((result.value[k] = "stable") <=>
                         FracLt(FracAbs(RateAt(k)), Frac(1, 2)))

\* a window shorter than the series: the warm-up points are stable and a
\* later point is not
C19_Witness ==
    /\ result.op = "calculate_trend"
    /\ result.window = 2
    /\ Len(result.value) = 3
    /\ result.value[1] = "stable"
    /\ result.value[2] = "stable"
    /\ result.value[3] = "rising"

-----------------------------------------------------------------------------
(* C20 *)

\* the hours of a day at which column i of the hourly table is defined
DefinedHours(i, day) == {t \in HoursOf(df, day) : df.cols[i].vals[t] # NaN}

\* the snowfall_calculated members with a defined value on the day
SnowMembers(day) ==
    {i \in ColumnsOf(df, "snowfall_calculated") : DefinedHours(i, day) # {}}

\* one member's sum and maximum over its defined hours of the day
MemberTotal(i, day) == SetSum(df.cols[i].vals, DefinedHours(i, day))
MemberMax(i, day) ==
    CHOOSE x \in {df.cols[i].vals[t] : t \in DefinedHours(i, day)} :
        \A t \in DefinedHours(i, day) : df.cols[i].vals[t] <= x

\* the mean over the day's members of a per-member reduction
MeanOverMembers(f(_, _), day) ==
    LET M == SnowMembers(day)
    IN  Frac(SetSum([i \in M |-> f(i, day)], M), Cardinality(M))

\* C20: for each day with a snowfall member defined on it, the daily
\* snowfall total is the mean over those members of the member's sum over
\* its defined hours of the day, and max_hourly is the mean over those
\* members of the member's maximum: each member is reduced first and the
\* members are averaged afterwards (both rounded to one decimal in the entry).
C20_AggregateThenAverage ==
    (pc \in {"summary", "done"}) =>
        \A k \in 1..Len(forecast.daily) :
            LET e   == forecast.daily[k]
                day == e.date.day
            IN  (SnowMembers(day) # {}) =>
                    /\ e.snowfall.total = Num(Round(MeanOverMembers(MemberTotal, day)))
                    /\ e.snowfall.max_hourly = Num(Round(MeanOverMembers(MemberMax, day)))

-----------------------------------------------------------------------------
(* C21 *)

StdVariables == {"temperature_2m", "precipitation"}

\* C21: for the same defined member values at a timestamp (two or more),
\* the std in the hourly entry of EnhancedForecastGenerator is the std that
\* calculate_statistics gives for them (sample, N - 1), to the entry's one
\* decimal.
C21_OneStdConvention ==
    (pc \in {"daily", "summary", "done"}) =>
        \A t \in 1..Len(forecast.hourly) : \A v \in StdVariables :
            LET row == RowOf(get_variable_columns(df, v), t)
                st  == calculate_statistics(df, v).value[t]
            IN  (Len(Valid(row)) >= 2) =>
                    forecast.hourly[t][v].std =
                        RoundSqrt(st.var, st.max.n - st.min.n)

-----------------------------------------------------------------------------
(* C22 *)

\* C22: no step of a forecast generator's generate_forecast changes the
\* caller's hourly or daily table: the columns and the values stay those the
\* caller passed in.
C22_TablesReadOnly == [][df' = df /\ daily_df' = daily_df]_vars

-----------------------------------------------------------------------------
(* C23 *)

\* C23: every hourly entry of ForecastGenerator built from a table with
\* precipitation member columns carries the precipitation probabilities in
\* its probabilities block, and every entry built from a table with
\* temperature_2m member columns carries the freezing probability there.
C23_HourlyProbabilities ==
    (result.op = "process_hourly") =>
        /\ ColumnsOf(df, "precipitation") # {} =>
              /\ result.status = "ok"
              /\ \A t \in 1..Len(result.value) :
                    "precipitation" \in result.value[t].probabilities.keys
        /\ ColumnsOf(df, "temperature_2m") # {} =>
              /\ result.status = "ok"
              /\ \A t \in 1..Len(result.value) :
                    "freezing" \in result.value[t].probabilities.keys

-----------------------------------------------------------------------------
(* C24 *)

\* C24: every derived snowfall series in the table is the snow engine's
\* result for the temperature, humidity and precipitation of one and the
\* same (model, member), also when a model lacks one of the three columns.
C24_SameMemberInputs ==
    (pc \in {"hourly", "daily", "summary", "done"}) =>
        \A i \in ColumnsOf(df, "snowfall_calculated") :
            \E mm \in EnsembleMembers(df) :
                df.cols[i].vals = EngineSeries(df, mm)

-----------------------------------------------------------------------------
(* C25 *)

\* C25: with the default threshold 1.5, identify_outliers on the per-model
\* means of at most 4 models flags no model at any timestamp.
C25_NoOutlierUpToFourModels ==
    (result.op = "identify_outliers" /\ result.cond = Gt(15)) =>
        \A t \in 1..Len(result.value) :
            (Cardinality(DOMAIN result.value[t]) <= 4) =>
                \A m \in DOMAIN result.value[t] : ~result.value[t][m].outlier

-----------------------------------------------------------------------------
(* C26 *)

\* C26: in every hourly entry of EnhancedForecastGenerator the wind_speed
\* block is ordered, min <= mean <= max and, where it carries a median,
\* min <= median <= max, with 80 m wind and with the adjusted 10 m wind.
C26_WindBlockOrdered ==
    (pc \in {"daily", "summary", "done"}) =>
        \A t \in 1..Len(forecast.hourly) :
            LET w == forecast.hourly[t].wind_speed
            IN  /\ w.min <= w.mean /\ w.mean <= w.max
                /\ ("median" \in w.keys) => (w.min <= w.median /\ w.median <= w.max)

-----------------------------------------------------------------------------
(* C28, C29: RateLimiter.is_allowed *)

\* the calls of the history made from one address, in order
CallsOf(ip) == SelectSeq(result.calls, LAMBDA c : c.ip = ip)

\* the positions of the calls from ip answered True at a time in (t - 60, t]
AllowedWithin(ip, t) ==
    {i \in 1..Len(result.calls) :
        /\ result.calls[i].ip = ip
        /\ result.calls[i].allowed
        /\ result.calls[i].t > t - Minute
        /\ result.calls[i].t <= t}

\* the answers a sequence of calls gets from a limiter that sees only them
RECURSIVE outcomes_alone(_, _)
outcomes_alone(calls, reqs) ==
    IF calls = <<>> THEN <<>>
    ELSE LET r == is_allowed(reqs, Head(calls).ip, Head(calls).t)
         IN  <<r.allowed>> \o outcomes_alone(Tail(calls), r.requests)

\* C28: for every address and every instant t, at most requests_per_minute
\* calls from that address with a time in (t - 60 s, t] were answered True,
\* and the answers an address gets are those it would get if no other
\* address had called
C28_WindowLimit ==
    result.op = "is_allowed" =>
        /\ \A ip \in IPs, t \in 0..(MaxTime + Minute) :
              Cardinality(AllowedWithin(ip, t)) <= requests_per_minute
        /\ \A ip \in IPs :
              [i \in 1..Len(CallsOf(ip)) |-> CallsOf(ip)[i].allowed]
                  = outcomes_alone(CallsOf(ip), NoRequests)

\* an address is at its limit and refused while the other address, calling
\* later at the same instant, is served
C28_Witness ==
    /\ result.op = "is_allowed"
    /\ \E i, j \in 1..Len(result.calls) :
          /\ i < j
          /\ ~result.calls[i].allowed
          /\ result.calls[j].allowed
          /\ result.calls[j].ip # result.calls[i].ip
          /\ result.calls[j].t = result.calls[i].t
          /\ Cardinality(AllowedWithin(result.calls[i].ip, result.calls[i].t))
                 = requests_per_minute

\* the earlier calls from the address of call i that were answered True
\* less than 60 s before it
PriorAllowed(i) ==
    {j \in 1..(i - 1) :
        /\ result.calls[j].ip = result.calls[i].ip
        /\ result.calls[j].allowed
        /\ result.calls[j].t > result.calls[i].t - Minute}

\* the time of the last call from ip
LastCall(ip) == CallsOf(ip)[Len(CallsOf(ip))].t

\* C29: a call answered False records nothing: the table holds, per address,
\* exactly the times of its calls answered True in the 60 s before its last
\* call, and a call is answered True as soon as fewer than
\* requests_per_minute earlier True calls of its address lie in its last 60 s
C29_DeniedNotRecorded ==
    result.op = "is_allowed" =>
        /\ \A ip \in DOMAIN requests :
              requests[ip] =
                  LET kept == SelectSeq(CallsOf(ip),
                                  LAMBDA c : c.allowed
                                             /\ c.t > LastCall(ip) - Minute)
                  IN  [i \in 1..Len(kept) |-> kept[i].t]
        /\ \A i \in 1..Len(result.calls) :
              Cardinality(PriorAllowed(i)) < requests_per_minute
                  => result.calls[i].allowed

\* a refused address is served again less than 60 s after its last refusal
C29_Witness ==
    /\ result.op = "is_allowed"
    /\ \E j, i \in 1..Len(result.calls) :
          /\ j < i
          /\ result.calls[j].ip = result.calls[i].ip
          /\ ~result.calls[j].allowed
          /\ result.calls[i].allowed
          /\ result.calls[j].t > result.calls[i].t - Minute
          /\ result.calls[j].t > 0

-----------------------------------------------------------------------------
(* C27, C30: the cached endpoint *)

\* C27: while one request is served, get_forecast runs at most once: not at
\* all on a cache hit, exactly once otherwise, whatever it returns and
\* whether or not the cache can be read or written; the request takes at
\* most one rate-limiter slot and starts at most one forecast computation
C27_WrappedOnce ==
    result.op = "request" =>
        /\ result.hit => result.calls = 0
        /\ ~result.hit => result.calls = 1
        /\ result.slots <= 1
        /\ result.computations <= 1

\* C30: the body sent on a cache hit is the body get_forecast builds for
\* the request that is being served
C30_HitForSameParameters ==
    (result.op = "request" /\ result.hit) =>
        result.body = response_of(args.app, result.request)

====
